---- MODULE Spec2Model ----
(***************************************************************************)
(* Othello: the bit-packed board, legal-move enumeration, move application *)
(* and the callers of make_move (console loop, trainer, negamax, MCTS).    *)
(*                                                                         *)
(* A 64-bit mask is modelled as the set of its set bit positions (a subset *)
(* of 0..63): a | b is union, a & b is intersection, a & ~b is difference, *)
(* 1 << p is {p}, bin(a).count('1') is Cardinality(a).                     *)
(***************************************************************************)
EXTENDS Integers, Sequences, FiniteSets, TLC

(***************************************************************************)
(* board_state.py                                                          *)
(***************************************************************************)
BLACK == "black"
WHITE == "white"
Player == {BLACK, WHITE}

DEFAULT_BLACK == {28, 35}
DEFAULT_WHITE == {27, 36}

\* BoardState.__init__: the five fields of the value.
BoardState(user, black, white, next_player, session_id) ==
    [user |-> user, black |-> black, white |-> white,
     next_player |-> next_player, session_id |-> session_id]

(***************************************************************************)
(* legal_moves.py                                                          *)
(***************************************************************************)
\* N, NE, E, SE, S, SW, W, NW as (dr, dc)
directions ==
    << <<-1, 0>>, <<-1, 1>>, <<0, 1>>, <<1, 1>>,
       <<1, 0>>, <<1, -1>>, <<0, -1>>, <<-1, -1>> >>

\* mutant: the column is never checked, so a scan runs on into the next row
on_board_rows_only(r, c) == 0 <= r /\ r < 8

\* the loop condition "0 <= r < 8 and 0 <= c < 8"
on_board(r, c) == 0 <= r /\ r < 8 /\ 0 <= c /\ c < 8

\* variant: a run of opponent pieces that reaches the edge of the board counts
\* as closed
RECURSIVE check_direction_loop_to_edge(_, _, _, _, _, _, _)
check_direction_loop_to_edge(r, c, dr, dc, player_pieces, opponent_pieces, found_opponent) ==
    IF ~on_board(r, c) THEN found_opponent
    ELSE LET pos == r * 8 + c IN
         IF pos \in opponent_pieces
         THEN check_direction_loop_to_edge(r + dr, c + dc, dr, dc,
                                           player_pieces, opponent_pieces, TRUE)
         ELSE IF pos \in player_pieces THEN found_opponent
         ELSE FALSE

\* the while loop of check_direction, entered at (r, c) with found_opponent
RECURSIVE check_direction_loop(_, _, _, _, _, _, _)
check_direction_loop(r, c, dr, dc, player_pieces, opponent_pieces, found_opponent) ==
    IF ~on_board(r, c) THEN FALSE
    ELSE LET pos == r * 8 + c IN
         IF pos \in opponent_pieces
         THEN check_direction_loop(r + dr, c + dc, dr, dc,
                                   player_pieces, opponent_pieces, TRUE)
         ELSE IF pos \in player_pieces THEN found_opponent
         ELSE FALSE

\* variant: the walk starts as if an opponent piece had already been crossed
check_direction_found(row, col, dr, dc, player_pieces, opponent_pieces) ==
    check_direction_loop(row + dr, col + dc, dr, dc,
                         player_pieces, opponent_pieces, TRUE)

check_direction(row, col, dr, dc, player_pieces, opponent_pieces) ==
    check_direction_loop(row + dr, col + dc, dr, dc,
                         player_pieces, opponent_pieces, FALSE)

is_legal_move(position, player_pieces, opponent_pieces) ==
    LET row == position \div 8
        col == position % 8
    IN \E i \in 1..Len(directions) :
          check_direction(row, col, directions[i][1], directions[i][2],
                          player_pieces, opponent_pieces)

\* F applied to the value of v, with v evaluated once
With(v, F(_)) == CHOOSE y \in {F(x) : x \in {v}} : TRUE

\* the elements of S as a list in ascending order
RECURSIVE ascending(_)
ascending(S) ==
    With(S, LAMBDA T :
    IF T = {} THEN <<>>
    ELSE With(CHOOSE x \in T : \A y \in T : x <= y, LAMBDA least :
         <<least>> \o ascending(T \ {least})))

\* the "for position in range(64)" loop: the positions appended, in the order
\* of the iteration
legal_moves_loop(empty_squares, player_pieces, opponent_pieces) ==
    ascending({position \in 0..63 :
                  /\ position \in empty_squares
                  /\ is_legal_move(position, player_pieces, opponent_pieces)})

\* variant: a state without a session identifier has no moves
get_legal_moves_of_session(board_state) ==
    LET player_pieces == IF board_state.next_player = BLACK
                         THEN board_state.black ELSE board_state.white
        opponent_pieces == IF board_state.next_player = BLACK
                           THEN board_state.white ELSE board_state.black
        occupied == player_pieces \cup opponent_pieces
        empty_squares == (0..63) \ occupied
    IN  IF board_state.session_id = "" THEN <<>>
        ELSE legal_moves_loop(empty_squares, player_pieces, opponent_pieces)

get_legal_moves(board_state) ==
    LET player_pieces == IF board_state.next_player = BLACK
                         THEN board_state.black ELSE board_state.white
        opponent_pieces == IF board_state.next_player = BLACK
                           THEN board_state.white ELSE board_state.black
        occupied == player_pieces \cup opponent_pieces
        empty_squares == (0..63) \ occupied
    IN legal_moves_loop(empty_squares, player_pieces, opponent_pieces)

\* the elements of a list
Elems(list) == With(list, LAMBDA l : {l[i] : i \in 1..Len(l)})

(***************************************************************************)
(* make_move.py                                                            *)
(*                                                                         *)
(* BoardState objects live in a heap (a sequence of field records); a      *)
(* reference is an index into it and 0 is "no object".  The move argument  *)
(* is tagged: None, an int, or a value of another type.                    *)
(***************************************************************************)
None == [tag |-> "none", val |-> 0]
Sq(m) == [tag |-> "int", val |-> m]
NotInt == [tag |-> "other", val |-> 0]

NoError == "no error"
RangeError == "ValueError: move must be an integer in the range 0-63"
IllegalError == "ValueError: illegal move"

\* mutant: the player is set, not toggled
_toggle_player_stuck(player) == WHITE

_toggle_player(player) == IF player = BLACK THEN WHITE ELSE BLACK

\* the while loop of _flips_in_direction, entered at (r, c) with `path`
RECURSIVE flips_in_direction_loop(_, _, _, _, _, _, _)
flips_in_direction_loop(r, c, dr, dc, player_pieces, opponent_pieces, path) ==
    IF ~on_board(r, c) THEN {}
    ELSE LET pos == r * 8 + c IN
         IF pos \in opponent_pieces
         THEN flips_in_direction_loop(r + dr, c + dc, dr, dc, player_pieces,
                                      opponent_pieces, Append(path, pos))
         ELSE IF pos \in player_pieces
              THEN IF path # <<>> THEN Elems(path) ELSE {}
              ELSE {}

_flips_in_direction(row, col, dr, dc, player_pieces, opponent_pieces) ==
    flips_in_direction_loop(row + dr, col + dc, dr, dc,
                            player_pieces, opponent_pieces, <<>>)

\* mutant: returns from inside the loop, with the first direction that captures
RECURSIVE first_direction_flips(_, _, _, _)
first_direction_flips(i, position, player_pieces, opponent_pieces) ==
    IF i > 8 THEN {}
    ELSE LET flips == flips_in_direction_loop((position \div 8) + directions[i][1],
                                              (position % 8) + directions[i][2],
                                              directions[i][1], directions[i][2],
                                              player_pieces, opponent_pieces, <<>>)
         IN IF flips # {} THEN flips
            ELSE first_direction_flips(i + 1, position, player_pieces, opponent_pieces)
_get_flips_mask_first(position, player_pieces, opponent_pieces) ==
    first_direction_flips(1, position, player_pieces, opponent_pieces)

_get_flips_mask(position, player_pieces, opponent_pieces) ==
    LET row == position \div 8
        col == position % 8
    IN UNION {_flips_in_direction(row, col, directions[i][1], directions[i][2],
                                  player_pieces, opponent_pieces)
              : i \in 1..Len(directions)}

\* mutant: a pass toggles next_player of the argument object and returns it
make_move_pass_in_place(board_state, heap) ==
    [raised |-> NoError, ret |-> board_state,
     heap |-> [heap EXCEPT ![board_state].next_player =
                              IF @ = BLACK THEN WHITE ELSE BLACK]]

\* variant: the pass leaves session_id to the constructor, which makes up a
\* new one
make_move_pass_new_session(board_state, heap) ==
    LET s == heap[board_state] IN
    [raised |-> NoError, ret |-> Len(heap) + 1,
     heap |-> Append(heap, BoardState(s.user, s.black, s.white,
                                      _toggle_player(s.next_player),
                                      "generated"))]

\* "if move is None: return BoardState(...)"
make_move_pass(board_state, heap) ==
    LET s == heap[board_state] IN
    [raised |-> NoError, ret |-> Len(heap) + 1,
     heap |-> Append(heap, BoardState(s.user, s.black, s.white,
                                      _toggle_player(s.next_player),
                                      s.session_id))]

\* mutant: the placed piece is left out
new_player_pieces_unplaced(player_pieces, flips_mask, move_mask) ==
    player_pieces \cup flips_mask

\* "new_player_pieces = player_pieces | flips_mask | move_mask"
new_player_pieces_of(player_pieces, flips_mask, move_mask) ==
    player_pieces \cup flips_mask \cup move_mask

\* mutant: the flipped pieces stay in the opponent's mask
new_opponent_pieces_kept(opponent_pieces, flips_mask) == opponent_pieces

\* "new_opponent_pieces = opponent_pieces & ~flips_mask"
new_opponent_pieces_of(opponent_pieces, flips_mask) ==
    opponent_pieces \ flips_mask

\* the part of make_move after the two checks: the move is applied
make_move_apply(move, board_state, heap) ==
    LET s == heap[board_state]
        player_is_black == s.next_player = BLACK
        player_pieces == IF player_is_black THEN s.black ELSE s.white
        opponent_pieces == IF player_is_black THEN s.white ELSE s.black
        flips_mask == _get_flips_mask(move, player_pieces, opponent_pieces)
        move_mask == {move}
        new_player_pieces == new_player_pieces_of(player_pieces, flips_mask, move_mask)
        new_opponent_pieces == new_opponent_pieces_of(opponent_pieces, flips_mask)
        new_black == IF player_is_black THEN new_player_pieces
                     ELSE new_opponent_pieces
        new_white == IF player_is_black THEN new_opponent_pieces
                     ELSE new_player_pieces
    IN [raised |-> NoError, ret |-> Len(heap) + 1,
        heap |-> Append(heap, BoardState(s.user, new_black, new_white,
                                         _toggle_player(s.next_player),
                                         s.session_id))]

\* mutant: the upper limit is off by one
out_of_range_64(move) == move.tag # "int" \/ move.val < 0 \/ move.val > 64

\* "if not isinstance(move, int) or move < 0 or move > 63"
out_of_range(move) == move.tag # "int" \/ move.val < 0 \/ move.val > 63

\* make_move(move, board_state) with board_state a reference into `heap`:
\* the heap after the call, the returned reference and the exception raised.
make_move(move, board_state, heap) ==
    IF move = None THEN make_move_pass(board_state, heap)
    ELSE IF out_of_range(move)
    THEN [raised |-> RangeError, ret |-> 0, heap |-> heap]
    ELSE LET legal_moves == get_legal_moves(heap[board_state]) IN
         IF move.val \notin Elems(legal_moves)
         THEN [raised |-> IllegalError, ret |-> 0, heap |-> heap]
         ELSE make_move_apply(move.val, board_state, heap)

\* the value returned by make_move(move, s) to a caller that keeps only it
\* (used where the call cannot raise)
moved(move, s) ==
    LET r == make_move(move, 1, <<s>>) IN r.heap[r.ret]

(***************************************************************************)
(* strategy_negamax.py                                                     *)
(*                                                                         *)
(* Weights are integers and a score is kept in units of 1/64, so that the  *)
(* piece-count term, weighted by total_pieces / 64.0, stays an integer:    *)
(* evaluate and evaluate_final return 64 times the score of the code.      *)
(***************************************************************************)
Inf == 1000000000

\* DEFAULT_WEIGHTS, rounded to integers
DEFAULT_WEIGHTS == [mobility |-> 20, corners |-> 100, corner_adjacent |-> 40,
                    edges |-> 8, piece_count |-> 2]

corners == {0, 7, 56, 63}
corner_adjacent ==
    [corner \in corners |->
        CASE corner = 0 -> {1, 8, 9}
          [] corner = 7 -> {6, 14, 15}
          [] corner = 56 -> {48, 49, 57}
          [] corner = 63 -> {54, 55, 62}]
\* variant: the corners count as edge squares too
edges_and_corners == (0..7) \cup (56..63) \cup {8, 16, 24, 32, 40, 48,
                                              15, 23, 31, 39, 47, 55}
edges == {1, 2, 3, 4, 5, 6, 8, 16, 24, 32, 40, 48,
          15, 23, 31, 39, 47, 55, 57, 58, 59, 60, 61, 62}

\* sum(f[x] for x in S) for a set S
RECURSIVE Sum(_, _)
Sum(f, S) ==
    With(S, LAMBDA T :
    IF T = {} THEN 0
    ELSE With(CHOOSE y \in T : TRUE, LAMBDA x : f[x] + Sum(f, T \ {x})))

\* variant: the mobility term counts the mover's moves only
evaluate_own_mobility(board_state, weights) ==
    LET player_pieces == IF board_state.next_player = BLACK
                         THEN board_state.black ELSE board_state.white
        opponent_pieces == IF board_state.next_player = BLACK
                           THEN board_state.white ELSE board_state.black
        temp_board == BoardState(board_state.user, board_state.black, board_state.white,
                                 IF board_state.next_player = BLACK THEN WHITE ELSE BLACK,
                                 board_state.session_id)
        mobility == With(Len(get_legal_moves(board_state)), LAMBDA player_mobility :
                    With(Len(get_legal_moves(temp_board)), LAMBDA opponent_mobility :
                    IF player_mobility + opponent_mobility # 0
                    THEN weights.mobility * player_mobility
                    ELSE 0))
        player_corners == Cardinality(corners \cap player_pieces)
        opponent_corners == Cardinality(corners \cap opponent_pieces)
        adjacent == Sum([corner \in corners |->
                           IF corner \notin player_pieces \cup opponent_pieces
                           THEN weights.corner_adjacent *
                                   (Cardinality(corner_adjacent[corner] \cap opponent_pieces)
                                    - Cardinality(corner_adjacent[corner] \cap player_pieces))
                           ELSE 0],
                        corners)
        player_edges == Cardinality(edges \cap player_pieces)
        opponent_edges == Cardinality(edges \cap opponent_pieces)
        total_pieces == Cardinality(player_pieces \cup opponent_pieces)
        player_count == Cardinality(player_pieces)
        opponent_count == Cardinality(opponent_pieces)
    IN 64 * (mobility
             + weights.corners * (player_corners - opponent_corners)
             + adjacent
             + weights.edges * (player_edges - opponent_edges))
       + total_pieces * weights.piece_count * (player_count - opponent_count)

evaluate(board_state, weights) ==
    LET player_pieces == IF board_state.next_player = BLACK
                         THEN board_state.black ELSE board_state.white
        opponent_pieces == IF board_state.next_player = BLACK
                           THEN board_state.white ELSE board_state.black
        temp_board == BoardState(board_state.user, board_state.black, board_state.white,
                                 IF board_state.next_player = BLACK THEN WHITE ELSE BLACK,
                                 board_state.session_id)
        mobility == With(Len(get_legal_moves(board_state)), LAMBDA player_mobility :
                    With(Len(get_legal_moves(temp_board)), LAMBDA opponent_mobility :
                    IF player_mobility + opponent_mobility # 0
                    THEN weights.mobility * (player_mobility - opponent_mobility)
                    ELSE 0))
        player_corners == Cardinality(corners \cap player_pieces)
        opponent_corners == Cardinality(corners \cap opponent_pieces)
        adjacent == Sum([corner \in corners |->
                           IF corner \notin player_pieces \cup opponent_pieces
                           THEN weights.corner_adjacent *
                                   (Cardinality(corner_adjacent[corner] \cap opponent_pieces)
                                    - Cardinality(corner_adjacent[corner] \cap player_pieces))
                           ELSE 0],
                        corners)
        player_edges == Cardinality(edges \cap player_pieces)
        opponent_edges == Cardinality(edges \cap opponent_pieces)
        total_pieces == Cardinality(player_pieces \cup opponent_pieces)
        player_count == Cardinality(player_pieces)
        opponent_count == Cardinality(opponent_pieces)
    IN 64 * (mobility
             + weights.corners * (player_corners - opponent_corners)
             + adjacent
             + weights.edges * (player_edges - opponent_edges))
       + total_pieces * weights.piece_count * (player_count - opponent_count)

\* variant: the counts are taken for BLACK whoever is to move
evaluate_final_for_black(board_state) ==
    IF Cardinality(board_state.black) > Cardinality(board_state.white) THEN 64 * 1000
    ELSE IF Cardinality(board_state.black) < Cardinality(board_state.white)
    THEN 64 * (-1000)
    ELSE 0

evaluate_final(board_state) ==
    LET player_pieces == IF board_state.next_player = BLACK
                         THEN board_state.black ELSE board_state.white
        opponent_pieces == IF board_state.next_player = BLACK
                           THEN board_state.white ELSE board_state.black
        player_count == Cardinality(player_pieces)
        opponent_count == Cardinality(opponent_pieces)
    IN IF player_count > opponent_count THEN 64 * 1000
       ELSE IF player_count < opponent_count THEN 64 * (-1000)
       ELSE 0

max(a, b) == IF a >= b THEN a ELSE b

\* mutant: a single legal move counts as none
no_moves_but_one(legal_moves) == Len(legal_moves) <= 1
\* "if not legal_moves:" -- the mover must pass
no_moves(legal_moves) == legal_moves = <<>>

\* one activation of a search function and its arguments
Frame(fn, board_state, depth, alpha, beta) ==
    [fn |-> fn, state |-> board_state, depth |-> depth, alpha |-> alpha, beta |-> beta]

\* one recursive call: the calling activation, the called one, the value the
\* called one returned, and whether the call follows make_move(None, .)
Edge(from, to, value, pass) == [from |-> from, to |-> to, value |-> value, pass |-> pass]

\* variant: a forced pass costs one ply of the depth budget
pass_depth_less(depth) == depth - 1
\* the depth handed on after a forced pass: "negamax(new_board, depth, ...)"
pass_depth(depth) == depth

\* variant: the search goes one ply below the depth asked for
leaf_below(depth) == depth = -1
\* "if depth == 0:" -- the position is scored by evaluate
leaf(depth) == depth = 0

\* variant: the cut-off test with the sign of beta wrong
cut_off_negated(alpha, beta) == alpha >= -beta
\* "if alpha >= beta: break"
cut_off(alpha, beta) == alpha >= beta

\* negamax(board_state, depth, alpha, beta, weights): the value returned, the
\* states on which the search called make_move(None, .), the deepest nesting
\* of activations reached (this one included) and the recursive calls made
RECURSIVE negamax(_, _, _, _, _)
RECURSIVE negamax_loop(_, _, _, _, _, _, _, _, _)
negamax(board_state, depth, alpha, beta, weights) ==
    IF leaf(depth)
    THEN [value |-> evaluate(board_state, weights), passed |-> {},
          frames |-> 1, calls |-> {}]
    ELSE With(get_legal_moves(board_state), LAMBDA legal_moves :
         IF no_moves(legal_moves)
         THEN With(moved(None, board_state), LAMBDA new_board :
              IF get_legal_moves(new_board) = <<>>
              THEN [value |-> evaluate_final(board_state), passed |-> {board_state},
                    frames |-> 1, calls |-> {}]
              ELSE With(negamax(new_board, pass_depth(depth), -beta, -alpha, weights),
                        LAMBDA r :
                   [value |-> -r.value, passed |-> {board_state} \cup r.passed,
                    frames |-> 1 + r.frames,
                    calls |-> {Edge(Frame("negamax", board_state, depth, alpha, beta),
                                    Frame("negamax", new_board, pass_depth(depth),
                                          -beta, -alpha),
                                    r.value, TRUE)} \cup r.calls]))
         ELSE negamax_loop(board_state, legal_moves, 1, depth, alpha, beta, weights,
                           -Inf, [self |-> Frame("negamax", board_state, depth, alpha, beta),
                                  passed |-> {}, frames |-> 0, calls |-> {}]))

\* the "for move in legal_moves" loop of negamax, from index i on; alpha is
\* the loop's running alpha, log.self the activation the loop runs in
negamax_loop(board_state, legal_moves, i, depth, alpha, beta, weights, max_score, log) ==
    IF i > Len(legal_moves)
    THEN [value |-> max_score, passed |-> log.passed,
          frames |-> 1 + log.frames, calls |-> log.calls]
    ELSE With(moved(Sq(legal_moves[i]), board_state), LAMBDA new_board :
         With(negamax(new_board, depth - 1, -beta, -alpha, weights), LAMBDA r :
         With([max_score |-> max(max_score, -r.value),
               alpha |-> max(alpha, -r.value),
               log |-> [self |-> log.self,
                        passed |-> log.passed \cup r.passed,
                        frames |-> max(log.frames, r.frames),
                        calls |-> log.calls \cup r.calls \cup
                            {Edge(log.self,
                                  Frame("negamax", new_board, depth - 1, -beta, -alpha),
                                  r.value, FALSE)}]], LAMBDA new :
         IF cut_off(new.alpha, beta)
         THEN [value |-> new.max_score, passed |-> new.log.passed,
               frames |-> 1 + new.log.frames, calls |-> new.log.calls]
         ELSE negamax_loop(board_state, legal_moves, i + 1, depth, new.alpha,
                           beta, weights, new.max_score, new.log))))

\* variant: a score equal to the best one replaces the list
better_or_equal(score, best_score) == score >= best_score
\* "if score > best_score:" -- the move starts a new list of best moves
better(score, best_score) == score > best_score

\* the "for move in legal_moves" loop of choose_move, from index i on
RECURSIVE choose_move_loop(_, _, _, _, _, _, _, _, _)
choose_move_loop(board_state, legal_moves, i, depth, weights, best_moves, best_score, alpha, log) ==
    IF i > Len(legal_moves)
    THEN [best_moves |-> best_moves, passed |-> log.passed,
          frames |-> 1 + log.frames, calls |-> log.calls]
    ELSE With(legal_moves[i], LAMBDA move :
         With(moved(Sq(move), board_state), LAMBDA new_board :
         With(negamax(new_board, depth - 1, -Inf, -alpha, weights), LAMBDA r :
         With([score |-> -r.value,
               log |-> [self |-> log.self,
                        passed |-> log.passed \cup r.passed,
                        frames |-> max(log.frames, r.frames),
                        calls |-> log.calls \cup r.calls \cup
                            {Edge(log.self,
                                  Frame("negamax", new_board, depth - 1, -Inf, -alpha),
                                  r.value, FALSE)}]], LAMBDA new :
         IF better(new.score, best_score)
         THEN choose_move_loop(board_state, legal_moves, i + 1, depth, weights,
                               <<move>>, new.score, max(alpha, new.score),
                               new.log)
         ELSE IF new.score = best_score
         THEN choose_move_loop(board_state, legal_moves, i + 1, depth, weights,
                               Append(best_moves, move), best_score, alpha,
                               new.log)
         ELSE choose_move_loop(board_state, legal_moves, i + 1, depth, weights,
                               best_moves, best_score, alpha, new.log)))))

\* choose_move(board_state, depth, weights): the list random.choice draws the
\* answer from (empty: None is returned), the states the search passed on,
\* the deepest nesting of activations and the recursive calls made
choose_move(board_state, depth, weights) ==
    With(get_legal_moves(board_state), LAMBDA legal_moves :
    IF no_moves(legal_moves)
    THEN [best_moves |-> <<>>, passed |-> {}, frames |-> 1, calls |-> {}]
    ELSE choose_move_loop(board_state, legal_moves, 1, depth, weights,
                          <<>>, -Inf, -Inf,
                          [self |-> Frame("choose_move", board_state, depth, -Inf, Inf),
                           passed |-> {}, frames |-> 0, calls |-> {}]))

(***************************************************************************)
(* State.  A caller holds one BoardState (`board`, a reference into        *)
(* `heap`) and calls make_move on it.  `last` records the latest call: its *)
(* caller, its arguments, a copy of the argument object's fields taken     *)
(* before the call, and its outcome; `prior` tells whether the call before *)
(* it was a pass, and from which position.                                 *)
(***************************************************************************)
VARIABLES heap, board, last, prior,
          prog, pc, consecutive_passes, moves,
          search, tree, iterations, call

vars == <<heap, board, last, prior, prog, pc, consecutive_passes, moves,
          search, tree, iterations, call>>
game_vars == <<heap, board, last, prior>>
loop_vars == <<consecutive_passes, moves>>
search_vars == <<search, tree, iterations, call>>

\* Bounds of the model
MaxStones == 7
MaxPieces == 3
FreePlies == 2
MaxExplorations == 3
MaxEmpty == 3

Users == {"testuser"}
SessionIds == {"session-1"}

NoState == BoardState("", {}, {}, BLACK, "")
NoCall == [caller |-> "none", move |-> None, arg |-> 0, before |-> NoState,
           ret |-> 0, raised |-> NoError]
NoPrior == [was_pass |-> FALSE, before |-> NoState]

\* The heap trimmed to the objects the caller can still reach after a call
\* with result r: the argument object first, then the returned one.
Trimmed(r, arg) ==
    IF r.ret = 0 \/ r.ret = arg THEN <<r.heap[arg]>>
    ELSE <<r.heap[arg], r.heap[r.ret]>>
TrimmedRet(r, arg) ==
    IF r.ret = 0 THEN 0 ELSE IF r.ret = arg THEN 1 ELSE 2

\* board = make_move(move, board), or the exception propagating to the caller
CallMakeMove(caller, move) ==
    \E r \in {make_move(move, board, heap)} :
       /\ heap' = Trimmed(r, board)
       /\ board' = IF r.raised = NoError THEN TrimmedRet(r, board) ELSE 1
       /\ last' = [caller |-> caller, move |-> move, arg |-> 1,
                   before |-> heap[board], ret |-> TrimmedRet(r, board),
                   raised |-> r.raised]
       /\ prior' = IF last.caller # "none" /\ last.move = None
                   THEN [was_pass |-> TRUE, before |-> last.before]
                   ELSE NoPrior

stones(s) == Cardinality(s.black \cup s.white)

\* the mask of all 64 squares
FullMask == 0..63

(***************************************************************************)
(* Spec: every sequence of make_move calls from the canonical start.       *)
(* SpecRules: one call of make_move on a constructed board.                *)
(***************************************************************************)
\* a search that has not run: its budget (depth or explorations), the moves it
\* may answer and the states it has passed on
\* what one turn of the MCTS loop did: the node selection ended on, the nodes
\* best_child was called on, was that node game-over, the node simulated
\* from, the playout's last state, its result and its number of loop turns
NoTurn == [selected |-> 0, path |-> <<>>, over |-> FALSE, node |-> 0,
           final |-> NoState, result |-> 0, steps |-> 0, raised |-> FALSE]
NoSearch == [budget |-> 0, answers |-> {}, passed |-> {}, turn |-> NoTurn]

\* no search function has been called on its own yet
NoResult ==
    [fn |-> "none", depth |-> 0, alpha |-> 0, beta |-> 0, raised |-> FALSE,
     weights |-> DEFAULT_WEIGHTS,
     value |-> 0, best_moves |-> <<>>, answers |-> {}, frames |-> 0, calls |-> {}]

\* the variables of the loops and of the searches, before they start
Fresh ==
    /\ consecutive_passes = 0
    /\ moves = 0
    /\ search = NoSearch
    /\ tree = <<>>
    /\ iterations = 0
    /\ call = NoResult

IdleLoop ==
    /\ prog = "test"
    /\ pc = "idle"
    /\ Fresh

Init ==
    /\ \E user \in Users, session_id \in SessionIds :
          heap = <<BoardState(user, DEFAULT_BLACK, DEFAULT_WHITE, BLACK, session_id)>>
    /\ board = 1
    /\ last = NoCall
    /\ prior = NoPrior
    /\ IdleLoop

\* the squares the constructed boards take their pieces from: the corner block
\* a1..c3 (runs of one and two pieces in every direction, next to two edges)
\* and g1, h1 (the two ends of a row boundary: h1 | a2 b2 and g1 h1 | a2)
Window == {p \in 0..23 : p % 8 \in {0, 1, 2}} \cup {6, 7}

\* the subsets of S with at most k elements
RECURSIVE SubsetsUpTo(_, _)
SubsetsUpTo(S, k) ==
    IF k = 0 THEN {{}}
    ELSE LET smaller == SubsetsUpTo(S, k - 1)
         IN smaller \cup {x \cup {e} : x \in smaller, e \in S}

\* boards with at most MaxPieces pieces, all inside the window, masks disjoint
ConstructedBoards ==
    UNION {{<<b, occ \ b>> : b \in SUBSET occ} : occ \in SubsetsUpTo(Window, MaxPieces)}

InitRules ==
    /\ \E user \in Users, session_id \in SessionIds, bw \in ConstructedBoards,
          next_player \in Player :
          heap = <<BoardState(user, bw[1], bw[2], next_player, session_id)>>
    /\ board = 1
    /\ last = NoCall
    /\ prior = NoPrior
    /\ IdleLoop

\* arguments that make_move rejects or may reject
ProbeSquares == {0, 9, 27, 63}
OtherInputs == {Sq(-1), Sq(64), NotInt} \cup {Sq(p) : p \in ProbeSquares}

ApplyMove ==
    /\ pc = "idle" /\ stones(heap[board]) < MaxStones
    /\ \E m \in Elems(get_legal_moves(heap[board])) : CallMakeMove("test", Sq(m))
    /\ UNCHANGED <<prog, pc, loop_vars, search_vars>>

ApplyPass ==
    /\ pc = "idle"
    /\ CallMakeMove("test", None)
    /\ UNCHANGED <<prog, pc, loop_vars, search_vars>>

ApplyRejected ==
    /\ pc = "idle"
    /\ \E move \in OtherInputs :
          /\ CallMakeMove("test", move)
          /\ last'.raised # NoError
    /\ UNCHANGED <<prog, pc, loop_vars, search_vars>>

Next == ApplyMove \/ ApplyPass \/ ApplyRejected

\* one call of make_move on a constructed board
RulesMove ==
    /\ last = NoCall
    /\ \E m \in Elems(get_legal_moves(heap[board])) : CallMakeMove("test", Sq(m))
    /\ UNCHANGED <<prog, pc, loop_vars, search_vars>>

RulesPass ==
    /\ last = NoCall
    /\ CallMakeMove("test", None)
    /\ UNCHANGED <<prog, pc, loop_vars, search_vars>>

NextRules == RulesMove \/ RulesPass

(***************************************************************************)
(* The game loops: othello.main (console) and train.play_game.             *)
(*                                                                         *)
(* choose_move (negamax) answers with a member of its list best_moves, a   *)
(* non-empty sublist of the legal moves, or None when there is none; which *)
(* member depends on the weights and on random.choice.  Once no more than  *)
(* MaxEmpty squares are empty the search is run in full.  Before, the      *)
(* loops take any legal move for the first FreePlies pieces of a game and  *)
(* the first legal square afterwards; the human player's entries are       *)
(* sampled alike.                                                          *)
(***************************************************************************)
MAX_MOVES == 120

\* mutant: the loop stops at the first pass
console_continues_once(passes) == passes < 1
\* "while consecutive_passes < 2" (othello.py)
console_continues(passes) == passes < 2
\* "while consecutive_passes < 2 and moves < max_moves" (train.py)
train_continues(passes, n, max_moves) == passes < 2 /\ n < max_moves

\* mutant: a pass is not counted
after_pass_uncounted(passes) == passes
\* "consecutive_passes += 1"
after_pass(passes) == passes + 1
\* "consecutive_passes = 0"
after_move(passes) == 0

\* the legal moves taken on from state s
SampledMoves(s, legal_moves) ==
    IF stones(s) < 4 + FreePlies THEN Elems(legal_moves) ELSE {legal_moves[1]}

\* "move = choose_move(board_state)" and "choose_move(board, depth=3, ...)"
ConsoleDepth == 4
TrainDepth == 3

\* weights as train.create_random_weights draws them (uniform in 5..30,
\* 50..150, 20..60, 1..10, 0.5..5): two samples
SampledWeights ==
    {DEFAULT_WEIGHTS,
     [mobility |-> 5, corners |-> 150, corner_adjacent |-> 20,
      edges |-> 10, piece_count |-> 5]}

\* what choose_move(board_state, depth, weights) may answer, and the states
\* the search passed on.  The search is run in full once no more than
\* MaxEmpty squares are empty; before, its answer is taken to be any of the
\* sampled legal moves and its passes are left out.
choose_move_answers(s, depth, weights) ==
    With(get_legal_moves(s), LAMBDA legal_moves :
    IF no_moves(legal_moves) THEN [answers |-> {None}, passed |-> {}]
    ELSE IF 64 - stones(s) <= MaxEmpty
    THEN With(choose_move(s, depth, weights), LAMBDA r :
         [answers |-> {Sq(m) : m \in Elems(r.best_moves)}, passed |-> r.passed])
    ELSE [answers |-> {Sq(m) : m \in SampledMoves(s, legal_moves)}, passed |-> {}])

\* a state a caller passed on, with the place of the call
Site(place, states) == {[place |-> place, state |-> s] : s \in states}

InitConsole ==
    /\ \E user \in Users, session_id \in SessionIds :
          heap = <<BoardState(user, DEFAULT_BLACK, DEFAULT_WHITE, BLACK, session_id)>>
    /\ board = 1
    /\ last = NoCall
    /\ prior = NoPrior
    /\ prog = "console"
    /\ pc = "loop"
    /\ Fresh

InitTrain ==
    /\ \E session_id \in SessionIds :
          heap = <<BoardState("trainer", DEFAULT_BLACK, DEFAULT_WHITE, BLACK, session_id)>>
    /\ board = 1
    /\ last = NoCall
    /\ prior = NoPrior
    /\ prog = "train"
    /\ pc = "loop"
    /\ Fresh

\* othello.py: the mover has no legal move and passes
ConsolePass ==
    /\ prog = "console" /\ pc = "loop"
    /\ console_continues(consecutive_passes)
    /\ no_moves(get_legal_moves(heap[board]))
    /\ CallMakeMove("console", None)
    /\ consecutive_passes' = after_pass(consecutive_passes)
    /\ UNCHANGED <<prog, pc, moves, search_vars>>

\* othello.py: the computer (WHITE) moves
ConsoleComputer ==
    /\ prog = "console" /\ pc = "loop"
    /\ console_continues(consecutive_passes)
    /\ ~no_moves(get_legal_moves(heap[board]))
    /\ heap[board].next_player = WHITE
    /\ consecutive_passes' = after_move(consecutive_passes)
    /\ \E r \in {choose_move_answers(heap[board], ConsoleDepth, DEFAULT_WEIGHTS)} :
       \E move \in r.answers :
          /\ CallMakeMove("console", move)
          /\ search' = [budget |-> ConsoleDepth, answers |-> r.answers,
                        passed |-> Site("negamax", r.passed), turn |-> NoTurn]
    /\ UNCHANGED <<prog, pc, moves, tree, iterations, call>>

\* othello.py: the human player (BLACK) is shown the board and asked
ConsoleHuman ==
    /\ prog = "console" /\ pc = "loop"
    /\ console_continues(consecutive_passes)
    /\ ~no_moves(get_legal_moves(heap[board]))
    /\ heap[board].next_player # WHITE
    /\ consecutive_passes' = after_move(consecutive_passes)
    /\ pc' = "input"
    /\ UNCHANGED <<game_vars, prog, moves, search_vars>>

\* othello.py: one entry of the human player; it is asked again unless the
\* entry parses to a legal move
ConsoleEntry ==
    /\ prog = "console" /\ pc = "input"
    /\ \E legal_moves \in {get_legal_moves(heap[board])} :
       \E entry \in SampledMoves(heap[board], legal_moves) \cup ProbeSquares \cup {-1} :
          IF entry \in Elems(legal_moves)
          THEN /\ CallMakeMove("console", Sq(entry))
               /\ pc' = "loop"
               /\ UNCHANGED <<prog, loop_vars, search_vars>>
          ELSE UNCHANGED vars

ConsoleOver ==
    /\ prog = "console" /\ pc = "loop"
    /\ ~console_continues(consecutive_passes)
    /\ pc' = "done"
    /\ UNCHANGED <<game_vars, prog, loop_vars, search_vars>>

\* train.py: the mover has no legal move and passes
TrainPass ==
    /\ prog = "train" /\ pc = "loop"
    /\ train_continues(consecutive_passes, moves, MAX_MOVES)
    /\ no_moves(get_legal_moves(heap[board]))
    /\ CallMakeMove("train", None)
    /\ consecutive_passes' = after_pass(consecutive_passes)
    /\ UNCHANGED <<prog, pc, moves, search_vars>>

\* train.py: choose_move is asked; its answer is applied, None as a pass
TrainMove ==
    /\ prog = "train" /\ pc = "loop"
    /\ train_continues(consecutive_passes, moves, MAX_MOVES)
    /\ ~no_moves(get_legal_moves(heap[board]))
    /\ moves' = moves + 1
    /\ \E weights \in SampledWeights :
       \E r \in {choose_move_answers(heap[board], TrainDepth, weights)} :
       \E move \in r.answers :
          /\ CallMakeMove("train", move)
          /\ consecutive_passes' = IF move = None
                                   THEN after_pass(after_move(consecutive_passes))
                                   ELSE after_move(consecutive_passes)
          /\ search' = [budget |-> TrainDepth, answers |-> r.answers,
                        passed |-> Site("negamax", r.passed), turn |-> NoTurn]
    /\ UNCHANGED <<prog, pc, tree, iterations, call>>

TrainOver ==
    /\ prog = "train" /\ pc = "loop"
    /\ ~train_continues(consecutive_passes, moves, MAX_MOVES)
    /\ pc' = "done"
    /\ UNCHANGED <<game_vars, prog, loop_vars, search_vars>>

InitGame == InitConsole \/ InitTrain

NextGame ==
    \/ ConsolePass \/ ConsoleComputer \/ ConsoleHuman \/ ConsoleEntry \/ ConsoleOver
    \/ TrainPass \/ TrainMove \/ TrainOver

\* the steps of the loops that ask no search, and those that do
LoopSteps ==
    \/ ConsolePass \/ ConsoleHuman \/ ConsoleEntry \/ ConsoleOver
    \/ TrainPass \/ TrainOver
SearchSteps == ConsoleComputer \/ TrainMove

\* a search step can be taken: the guards of ConsoleComputer and TrainMove
SearchDue ==
    /\ pc = "loop"
    /\ ~no_moves(get_legal_moves(heap[board]))
    /\ \/ /\ prog = "console"
          /\ console_continues(consecutive_passes)
          /\ heap[board].next_player = WHITE
       \/ /\ prog = "train"
          /\ train_continues(consecutive_passes, moves, MAX_MOVES)

\* the loops run on: a step that can be taken is taken (the human player
\* eventually enters a legal move).  For the search steps weak fairness is
\* written out, with SearchDue for ENABLED <<SearchSteps>>_vars.
GameFairness ==
    /\ WF_vars(LoopSteps)
    /\ []<>(~SearchDue) \/ []<><<SearchSteps>>_vars

SpecGame == InitGame /\ [][NextGame]_vars /\ GameFairness

(***************************************************************************)
(* strategy_mcts.py                                                        *)
(*                                                                         *)
(* The tree is a sequence of nodes; a node names its parent and children   *)
(* by their index (0: no parent).  Board states are held by value.         *)
(***************************************************************************)
\* variant: no pass is offered to a mover without a move
_get_moves_without_pass(board_state) ==
    LET legal_moves == get_legal_moves(board_state) IN
    [i \in 1..Len(legal_moves) |-> Sq(legal_moves[i])]

_get_moves_including_pass(board_state) ==
    LET legal_moves == get_legal_moves(board_state) IN
    IF ~no_moves(legal_moves)
    THEN [i \in 1..Len(legal_moves) |-> Sq(legal_moves[i])]
    ELSE <<None>>

_Node(board_state, parent, move) ==
    [board_state |-> board_state, parent |-> parent, move |-> move,
     children |-> <<>>,
     untried_moves |-> _get_moves_including_pass(board_state),
     visits |-> 0, value |-> 0]

\* result: is the game over; passed: the states make_move(None, .) was called on
_is_game_over(board_state) ==
    LET legal_moves == get_legal_moves(board_state) IN
    IF ~no_moves(legal_moves) THEN [result |-> FALSE, passed |-> {}]
    ELSE [result |-> Len(get_legal_moves(moved(None, board_state))) = 0,
          passed |-> {board_state}]

is_terminal(node) == _is_game_over(node.board_state)

\* variant: a node counts as fully expanded with one move still untried
is_fully_expanded_early(node) == Len(node.untried_moves) <= 1

is_fully_expanded(node) == Len(node.untried_moves) = 0

\* variant: the move stays in the list of untried moves
expand_without_pop(nodes, n) ==
    LET node == nodes[n]
        move == node.untried_moves[Len(node.untried_moves)]
        new_state == moved(move, node.board_state)
        child == Len(nodes) + 1
    IN  IF node.untried_moves = <<>>
        THEN [tree |-> nodes, node |-> 0, passed |-> {}]
        ELSE [tree |-> Append([nodes EXCEPT ![n].children = Append(@, child)],
                              _Node(new_state, n, move)),
              node |-> child,
              passed |-> IF move = None THEN {node.board_state} ELSE {}]

\* pops the last untried move of node n and appends the child it leads to;
\* node 0 is no node: "self.untried_moves.pop()" raises IndexError on an
\* empty list
expand(nodes, n) ==
    LET node == nodes[n]
        move == node.untried_moves[Len(node.untried_moves)]
        new_state == moved(move, node.board_state)
        child == Len(nodes) + 1
    IN  IF node.untried_moves = <<>>
        THEN [tree |-> nodes, node |-> 0, passed |-> {}]
        ELSE [tree |-> Append([nodes EXCEPT
                                  ![n].untried_moves = SubSeq(@, 1, Len(@) - 1),
                                  ![n].children = Append(@, child)],
                              _Node(new_state, n, move)),
              node |-> child,
              passed |-> IF move = None THEN {node.board_state} ELSE {}]

\* "c * math.sqrt(math.log(self.visits) / child.visits)" with c = 1.4, in
\* millionths: row self.visits, column child.visits, both 1..6
uct_explore ==
    <<<<0, 0, 0, 0, 0, 0>>,
      <<1165576, 824187, 672946, 582788, 521262, 475845>>,
      <<1467406, 1037613, 847207, 733703, 656244, 599066>>,
      <<1648374, 1165576, 951689, 824187, 737175, 672946>>,
      <<1776091, 1255886, 1025426, 888045, 794292, 725086>>,
      <<1873993, 1325113, 1081950, 936996, 838075, 765054>>>>

\* "exploit + explore" of child c of node n, in millionths.  Two scores of
\* at most 6 visits are equal as floats only when values and visits agree,
\* and differ by more than 300 millionths otherwise.
uct_score(nodes, n, c) ==
    (nodes[c].value * 1000000) \div nodes[c].visits
        + uct_explore[nodes[n].visits][nodes[c].visits]

\* the child best_child returns: the first child without a visit, else the
\* first child of the highest UCT score.  Node 0 is no node: None for a node
\* without children, and math.log(self.visits) raises ValueError for a node
\* without a visit.
best_child(nodes, n) ==
    LET children == nodes[n].children
        unvisited == {i \in 1..Len(children) : nodes[children[i]].visits = 0}
        best == CHOOSE i \in 1..Len(children) :
                   /\ \A j \in 1..Len(children) :
                         uct_score(nodes, n, children[j]) <= uct_score(nodes, n, children[i])
                   /\ \A j \in 1..(i - 1) :
                         uct_score(nodes, n, children[j]) < uct_score(nodes, n, children[i])
    IN  IF unvisited # {}
        THEN children[CHOOSE i \in unvisited : \A j \in unvisited : i <= j]
        ELSE IF children = <<>> \/ nodes[n].visits = 0 THEN 0
        ELSE children[best]

\* "while node.is_fully_expanded() and node.children: node = node.best_child()":
\* the node the loop ends on, with the nodes best_child was called on
RECURSIVE selection(_, _, _)
selection(nodes, n, path) ==
    IF n = 0 THEN [node |-> 0, path |-> path]
    ELSE IF is_fully_expanded(nodes[n]) /\ nodes[n].children # <<>>
    THEN selection(nodes, best_child(nodes, n), Append(path, n))
    ELSE [node |-> n, path |-> path]

\* variant: the walk stops below the root
RECURSIVE backpropagate_below_root(_, _, _)
backpropagate_below_root(nodes, n, result) ==
    IF n = 0 \/ nodes[n].parent = 0 THEN nodes
    ELSE backpropagate_below_root(
             [nodes EXCEPT ![n].visits = @ + 1, ![n].value = @ + result],
             nodes[n].parent, result)

RECURSIVE backpropagate(_, _, _)
backpropagate(nodes, n, result) ==
    IF n = 0 THEN nodes
    ELSE backpropagate([nodes EXCEPT ![n].visits = @ + 1, ![n].value = @ + result],
                       nodes[n].parent, result)

\* variant: the result is taken for the player to move on the last state
simulate_result_for_mover(state, root_player) ==
    LET black_count == Cardinality(state.black)
        white_count == Cardinality(state.white)
        winner == IF black_count > white_count THEN BLACK ELSE WHITE
    IN  IF black_count = white_count THEN 0
        ELSE IF winner = state.next_player THEN 1 ELSE -1

simulate_result(state, root_player) ==
    LET black_count == Cardinality(state.black)
        white_count == Cardinality(state.white)
        winner == IF black_count > white_count THEN BLACK ELSE WHITE
    IN  IF black_count = white_count THEN 0
        ELSE IF winner = root_player THEN 1 ELSE -1

\* the playouts of "while consecutive_passes < 2", one for each way
\* random.choice can go: each one's result, the states it passed on, the
\* state it ended on and the number of turns of the loop
RECURSIVE simulate_loop(_, _, _, _, _)
simulate_loop(state, passes, passed, root_player, steps) ==
    IF ~(passes < 2)
    THEN {[result |-> simulate_result(state, root_player), passed |-> passed,
           final |-> state, steps |-> steps]}
    ELSE With(get_legal_moves(state), LAMBDA legal_moves :
         IF no_moves(legal_moves)
         THEN With(moved(None, state), LAMBDA new_state :
              simulate_loop(new_state, passes + 1, passed \cup {state}, root_player,
                            steps + 1))
         ELSE UNION {simulate_loop(new_state, 0, passed, root_player, steps + 1) :
                        new_state \in {moved(Sq(m), state) : m \in Elems(legal_moves)}})

_simulate(board_state, root_player) == simulate_loop(board_state, 0, {}, root_player, 0)

\* variant: the first child of the highest average value
highest_average(nodes) ==
    LET children == nodes[1].children
        above(i, j) == nodes[children[i]].value * nodes[children[j]].visits
                          > nodes[children[j]].value * nodes[children[i]].visits
        best == CHOOSE i \in 1..Len(children) :
                   /\ \A j \in 1..Len(children) : ~above(j, i)
                   /\ \A j \in 1..(i - 1) : above(i, j)
    IN  IF children = <<>> THEN None ELSE nodes[children[best]].move

\* "max(root.children, key=lambda c: c.visits, default=None)": the first child
\* of the highest visit count
most_visited(nodes) ==
    LET children == nodes[1].children
        best == CHOOSE i \in 1..Len(children) :
                   /\ \A j \in 1..Len(children) :
                         nodes[children[j]].visits <= nodes[children[i]].visits
                   /\ \A j \in 1..(i - 1) :
                         nodes[children[j]].visits < nodes[children[i]].visits
    IN  IF children = <<>> THEN None ELSE nodes[children[best]].move

(***************************************************************************)
(* strategy_mcts.choose_move, asked from a program of its own: it plays on *)
(* from the canonical start as the loops do and may ask for a move once no *)
(* more than MaxEmpty squares are empty.                                   *)
(***************************************************************************)
InitMcts ==
    /\ \E user \in Users, session_id \in SessionIds :
          heap = <<BoardState(user, DEFAULT_BLACK, DEFAULT_WHITE, BLACK, session_id)>>
    /\ board = 1
    /\ last = NoCall
    /\ prior = NoPrior
    /\ prog = "mcts"
    /\ pc = "idle"
    /\ Fresh

\* the position moves on: a sampled legal move, or a pass that leaves the
\* opponent a move
MctsAdvance ==
    /\ prog = "mcts" /\ pc = "idle"
    /\ \E legal_moves \in {get_legal_moves(heap[board])} :
          IF no_moves(legal_moves)
          THEN /\ ~no_moves(get_legal_moves(moved(None, heap[board])))
               /\ CallMakeMove("setup", None)
          ELSE \E m \in SampledMoves(heap[board], legal_moves) :
                  CallMakeMove("setup", Sq(m))
    /\ UNCHANGED <<prog, pc, loop_vars, search_vars>>

\* strategy_mcts.choose_move(board_state, explorations), up to the loop
MctsStart ==
    /\ prog = "mcts" /\ pc = "idle"
    /\ 64 - stones(heap[board]) <= MaxEmpty
    /\ \E explorations \in 0..MaxExplorations :
          IF no_moves(get_legal_moves(heap[board]))
          THEN /\ search' = [budget |-> explorations, answers |-> {None}, passed |-> {},
                           turn |-> NoTurn]
               /\ pc' = "done"
               /\ tree' = tree
          ELSE /\ search' = [budget |-> explorations, answers |-> {}, passed |-> {},
                           turn |-> NoTurn]
               /\ pc' = "iterate"
               /\ tree' = <<_Node(heap[board], 0, None)>>
    /\ UNCHANGED <<game_vars, prog, loop_vars, iterations, call>>

\* variant: the loop runs once more than the budget
in_range_inclusive(done, explorations) == done <= explorations
\* "for _ in range(explorations)": another turn is due after `done` turns
in_range(done, explorations) == done < explorations

\* a turn of the loop ends in an exception, which choose_move does not catch
MctsRaise ==
    /\ search' = [search EXCEPT !.turn = [NoTurn EXCEPT !.raised = TRUE]]
    /\ pc' = "raised"
    /\ UNCHANGED <<tree, iterations>>

\* one turn of "for _ in range(explorations)": selection, expansion,
\* simulation, backpropagation; search.passed holds the passes of this turn
\* and search.turn what the turn did
MctsIterate ==
    /\ prog = "mcts" /\ pc = "iterate"
    /\ in_range(iterations, search.budget)
    /\ \E sel \in {selection(tree, 1, <<>>)} :
       IF sel.node = 0 THEN MctsRaise
       ELSE
       \E over \in {is_terminal(tree[sel.node])} :
       \E ex \in {IF ~over.result THEN expand(tree, sel.node)
                  ELSE [tree |-> tree, node |-> sel.node, passed |-> {}]} :
       IF ex.node = 0 THEN MctsRaise
       ELSE
       \E sim \in _simulate(ex.tree[ex.node].board_state, tree[1].board_state.next_player) :
          /\ tree' = backpropagate(ex.tree, ex.node, sim.result)
          /\ search' = [search EXCEPT
                           !.passed = Site("_is_game_over", over.passed)
                                      \cup Site("expand", ex.passed)
                                      \cup Site("_simulate", sim.passed),
                           !.turn = [selected |-> sel.node, path |-> sel.path,
                                     over |-> over.result, node |-> ex.node,
                                     final |-> sim.final, result |-> sim.result,
                                     steps |-> sim.steps, raised |-> FALSE]]
          /\ iterations' = iterations + 1
          /\ pc' = pc
    /\ UNCHANGED <<game_vars, prog, loop_vars, call>>

\* strategy_mcts.choose_move: the answer after the loop
MctsAnswer ==
    /\ prog = "mcts" /\ pc = "iterate"
    /\ ~in_range(iterations, search.budget)
    /\ search' = [search EXCEPT !.answers = {most_visited(tree)}]
    /\ pc' = "done"
    /\ UNCHANGED <<game_vars, prog, loop_vars, tree, iterations, call>>

InitCallers == InitGame \/ InitMcts

NextCallers ==
    \/ NextGame
    \/ MctsAdvance \/ MctsStart \/ MctsIterate \/ MctsAnswer

SpecCallers == InitCallers /\ [][NextCallers]_vars

(***************************************************************************)
(* strategy_negamax called on its own: choose_move on an early position of *)
(* each sampled game with the depths 1..MaxDepth, choose_move and negamax  *)
(* near the end also with depths that the game ends before.                *)
(***************************************************************************)
RootPlies == 4
MaxDepth == 2

\* the positions the searches are called on: the one RootPlies plies into each
\* sampled game, and those with no more than MaxEmpty empty squares
Opening(s) == stones(s) = 4 + RootPlies
NearEnd(s) == 64 - stones(s) <= MaxEmpty

\* the depths choose_move is called with: below 1 the depth test of negamax
\* never fires and the search runs to the end of the game
ChooseDepths(s) ==
    (IF Opening(s) \/ NearEnd(s) THEN 1..MaxDepth ELSE {}) \cup
    (IF NearEnd(s) THEN {-1, 0} ELSE {})

\* the depths negamax is called with
NegamaxDepths(s) == IF NearEnd(s) THEN (-1)..MaxDepth ELSE {}

\* the windows negamax is called with: the full one and a narrow one
Windows == {<<-Inf, Inf>>, <<0, 6400>>}

InitSearch ==
    /\ \E user \in Users, session_id \in SessionIds :
          heap = <<BoardState(user, DEFAULT_BLACK, DEFAULT_WHITE, BLACK, session_id)>>
    /\ board = 1
    /\ last = NoCall
    /\ prior = NoPrior
    /\ prog = "search" /\ pc = "idle"
    /\ Fresh

\* the position moves on: a sampled legal move, or a pass that leaves the
\* opponent a move
SearchAdvance ==
    /\ prog = "search" /\ pc = "idle"
    /\ \E legal_moves \in {get_legal_moves(heap[board])} :
          IF no_moves(legal_moves)
          THEN /\ ~no_moves(get_legal_moves(moved(None, heap[board])))
               /\ CallMakeMove("setup", None)
          ELSE \E m \in SampledMoves(heap[board], legal_moves) :
                  CallMakeMove("setup", Sq(m))
    /\ UNCHANGED <<prog, pc, loop_vars, search_vars>>

\* strategy_negamax.choose_move(board_state, depth, DEFAULT_WEIGHTS):
\* random.choice(best_moves) raises IndexError on an empty list
SearchChoose ==
    /\ prog = "search" /\ pc = "idle"
    /\ \E depth \in ChooseDepths(heap[board]) :
       \E r \in {choose_move(heap[board], depth, DEFAULT_WEIGHTS)} :
       \E none \in {no_moves(get_legal_moves(heap[board]))} :
          call' = [fn |-> "choose_move", depth |-> depth, alpha |-> -Inf, beta |-> Inf,
                   weights |-> DEFAULT_WEIGHTS,
                   raised |-> ~none /\ r.best_moves = <<>>,
                   value |-> 0, best_moves |-> r.best_moves,
                   answers |-> IF none THEN {None}
                               ELSE {Sq(m) : m \in Elems(r.best_moves)},
                   frames |-> r.frames, calls |-> r.calls]
    /\ pc' = "done"
    /\ UNCHANGED <<game_vars, prog, loop_vars, search, tree, iterations>>

\* strategy_negamax.negamax(board_state, depth, alpha, beta, DEFAULT_WEIGHTS)
SearchNegamax ==
    /\ prog = "search" /\ pc = "idle"
    /\ \E depth \in NegamaxDepths(heap[board]), window \in Windows :
       \E r \in {negamax(heap[board], depth, window[1], window[2], DEFAULT_WEIGHTS)} :
          call' = [fn |-> "negamax", depth |-> depth,
                   alpha |-> window[1], beta |-> window[2],
                   weights |-> DEFAULT_WEIGHTS, raised |-> FALSE,
                   value |-> r.value, best_moves |-> <<>>, answers |-> {},
                   frames |-> r.frames, calls |-> r.calls]
    /\ pc' = "done"
    /\ UNCHANGED <<game_vars, prog, loop_vars, search, tree, iterations>>

\* strategy_negamax.evaluate(board_state, weights); value is 64 times the score
SearchEvaluate ==
    /\ prog = "search" /\ pc = "idle"
    /\ \E weights \in SampledWeights :
          call' = [NoResult EXCEPT !.fn = "evaluate", !.weights = weights,
                                   !.value = evaluate(heap[board], weights)]
    /\ pc' = "done"
    /\ UNCHANGED <<game_vars, prog, loop_vars, search, tree, iterations>>

\* strategy_negamax.evaluate_final(board_state); value is 64 times the score
SearchEvaluateFinal ==
    /\ prog = "search" /\ pc = "idle"
    /\ call' = [NoResult EXCEPT !.fn = "evaluate_final",
                                !.value = evaluate_final(heap[board])]
    /\ pc' = "done"
    /\ UNCHANGED <<game_vars, prog, loop_vars, search, tree, iterations>>

\* late positions built by hand for strategy_mcts.choose_move: outside the
\* corner block a1, b1, a2, b2 the rows are black and white in turn, and of
\* the four squares of the block one to MaxEmpty are empty
LateWindow == {0, 1, 8, 9}
Striped(colour) == {p \in FullMask \ LateWindow :
                       ((p \div 8) % 2 = 0) <=> (colour = BLACK)}
LateBoards ==
    {<<Striped(BLACK) \cup b, Striped(WHITE) \cup (occ \ b)>> :
        b \in SUBSET LateWindow,
        occ \in {o \in SUBSET LateWindow : Cardinality(LateWindow \ o) \in 1..MaxEmpty}}

InitLate ==
    /\ \E user \in Users, session_id \in SessionIds, bw \in LateBoards,
          next_player \in Player :
          heap = <<BoardState(user, bw[1], bw[2], next_player, session_id)>>
    /\ board = 1
    /\ last = NoCall
    /\ prior = NoPrior
    /\ prog = "mcts"
    /\ pc = "idle"
    /\ Fresh

\* the searches called on their own: negamax and MCTS
InitSearches == InitSearch \/ InitMcts \/ InitLate

NextSearch ==
    \/ SearchAdvance \/ SearchChoose \/ SearchNegamax
    \/ SearchEvaluate \/ SearchEvaluateFinal
    \/ MctsAdvance \/ MctsStart \/ MctsIterate \/ MctsAnswer

\* a turn of the MCTS loop is due: MctsIterate is enabled
IterateDue == prog = "mcts" /\ pc = "iterate" /\ in_range(iterations, search.budget)

\* choose_move of strategy_mcts runs its loop to the end once it is called:
\* weak fairness of MctsAnswer and of MctsIterate, the latter written out
\* with IterateDue for ENABLED <<MctsIterate>>_vars
SearchFairness ==
    /\ WF_vars(MctsAnswer)
    /\ []<>(~IterateDue) \/ []<><<MctsIterate>>_vars

SpecSearch == InitSearches /\ [][NextSearch]_vars /\ SearchFairness

(***************************************************************************)
(* get_legal_moves and evaluate on any pair of masks: the boards of the    *)
(* rule tests, pairs of masks that overlap, boards with every square       *)
(* taken, and both masks full.                                             *)
(***************************************************************************)
DegenerateBoards ==
    ConstructedBoards
    \cup {<<b, w>> : b \in SubsetsUpTo(Window, MaxPieces - 2),
                     w \in SubsetsUpTo(Window, MaxPieces - 2)}
    \cup {<<b, FullMask \ b>> : b \in SubsetsUpTo(Window, MaxPieces - 1)}
    \cup {<<FullMask \ w, w>> : w \in SubsetsUpTo(Window, MaxPieces - 1)}
    \cup {<<FullMask, FullMask>>}

InitTotal ==
    /\ \E user \in Users, session_id \in SessionIds, bw \in DegenerateBoards,
          next_player \in Player :
          heap = <<BoardState(user, bw[1], bw[2], next_player, session_id)>>
    /\ board = 1
    /\ last = NoCall
    /\ prior = NoPrior
    /\ prog = "search" /\ pc = "idle"
    /\ Fresh

\* get_legal_moves(board_state)
TotalLegalMoves ==
    /\ prog = "search" /\ pc = "idle"
    /\ call' = [NoResult EXCEPT !.fn = "get_legal_moves",
                                !.best_moves = get_legal_moves(heap[board])]
    /\ pc' = "done"
    /\ UNCHANGED <<game_vars, prog, loop_vars, search, tree, iterations>>

NextTotal == TotalLegalMoves \/ SearchEvaluate

SpecTotal == InitTotal /\ [][NextTotal]_vars

Spec == Init /\ [][Next]_vars
SpecRules == InitRules /\ [][NextRules]_vars

(***************************************************************************)
(* The capture rule, stated square by square: from `position`, direction i *)
(* captures a run of k pieces when the k squares next to it in that        *)
(* direction are on the board and hold opponent pieces, and the square     *)
(* after them is on the board and holds one of the mover's pieces.         *)
(***************************************************************************)
StepRow(position, i, j) == (position \div 8) + j * directions[i][1]
StepCol(position, i, j) == (position % 8) + j * directions[i][2]
StepOnBoard(position, i, j) ==
    /\ StepRow(position, i, j) \in 0..7
    /\ StepCol(position, i, j) \in 0..7
StepSquare(position, i, j) == 8 * StepRow(position, i, j) + StepCol(position, i, j)

Captures(position, i, k, mover, opponent) ==
    /\ \A j \in 1..k : /\ StepOnBoard(position, i, j)
                       /\ StepSquare(position, i, j) \in opponent
    /\ StepOnBoard(position, i, k + 1)
    /\ StepSquare(position, i, k + 1) \in mover

RuleRuns(position, mover, opponent) ==
    {ik \in (1..8) \X (1..6) : Captures(position, ik[1], ik[2], mover, opponent)}

RuleFlips(position, mover, opponent) ==
    UNION {{StepSquare(position, ik[1], j) : j \in 1..ik[2]}
           : ik \in RuleRuns(position, mover, opponent)}

MoverOf(s) == IF s.next_player = BLACK THEN s.black ELSE s.white
OpponentOf(s) == IF s.next_player = BLACK THEN s.white ELSE s.black

\* (the first conjunct is the case j = 1 of Captures)
CapturesSome(position, i, mover, opponent) ==
    /\ StepOnBoard(position, i, 1) /\ StepSquare(position, i, 1) \in opponent
    /\ \E k \in 1..6 : Captures(position, i, k, mover, opponent)

RuleLegal(s) ==
    {position \in (0..63) \ (s.black \cup s.white) :
        \E i \in 1..8 : CapturesSome(position, i, MoverOf(s), OpponentOf(s))}

\* the latest call was made, and it was a pass / a square that was applied /
\* a call that raised
Called == last.caller # "none"
Passed == Called /\ last.move = None
Placed == Called /\ last.move.tag = "int" /\ last.raised = NoError
Raised == Called /\ last.raised # NoError
Returned == heap[last.ret]
Flipped == OpponentOf(last.before) \cap
           (IF last.before.next_player = BLACK THEN Returned.black ELSE Returned.white)

(***************************************************************************)
(* Claims                                                                  *)
(***************************************************************************)

\* C1: in every BoardState reachable from the canonical start by make_move
\* calls (legal squares and passes), no square holds both colours.
C1_NoDualOccupancy ==
    \A ref \in DOMAIN heap : heap[ref].black \cap heap[ref].white = {}

C1_Witness ==
    /\ Placed /\ prior.was_pass
    /\ stones(Returned) > 6
    /\ Cardinality(Flipped) > 1

\* C2: get_legal_moves returns exactly the empty squares from which at least
\* one of the 8 directions, scanned without leaving the board, passes over one
\* or more opponent pieces and then ends on one of the mover's pieces.
C2_LegalMovesAreCaptures ==
    \E legal_moves \in {get_legal_moves(heap[board])}, rule \in {RuleLegal(heap[board])} :
       /\ Elems(legal_moves) = rule
       /\ Len(legal_moves) = Cardinality(rule)

\* a1 is empty and not legal for BLACK although h1's successor in the mask, a2,
\* is white and b2 is black: a scan east from h1 leaves the board
C2_Witness ==
    /\ heap[board].next_player = BLACK
    /\ 8 \in heap[board].white /\ 9 \in heap[board].black
    /\ 7 \notin heap[board].black \cup heap[board].white
    /\ 7 \notin Elems(get_legal_moves(heap[board]))
    /\ Len(get_legal_moves(heap[board])) > 0

\* C3: a legal move adds the placed square and the flip mask to the mover's
\* mask, removes the flip mask from the opponent's mask, changes no other bit
\* and toggles next_player; the flip mask is the union of the captured runs.
C3_MoveEffect ==
    Placed =>
       \E s \in {last.before}, m \in {last.move.val} :
       \E flips \in {RuleFlips(m, MoverOf(s), OpponentOf(s))} :
          /\ Returned.next_player \in Player \ {s.next_player}
          /\ OpponentOf(Returned) = MoverOf(s) \cup {m} \cup flips
          /\ MoverOf(Returned) = OpponentOf(s) \ flips

\* a white move that captures in two directions
C3_Witness ==
    /\ Placed /\ last.before.next_player = WHITE
    /\ Cardinality({ik[1] : ik \in RuleRuns(last.move.val, MoverOf(last.before),
                                            OpponentOf(last.before))}) > 1

\* C4: a non-pass move outside 0..63, or inside 0..63 but not in
\* get_legal_moves(state), raises, returns no state and leaves the input state
\* as it was; the range check comes first.
C4_Rejected ==
    (Called /\ last.move # None) =>
       \E outside \in {last.move.tag # "int" \/ last.move.val \notin 0..63} :
       \E illegal \in {~outside /\ last.move.val \notin Elems(get_legal_moves(last.before))} :
          /\ (outside \/ illegal) <=> Raised
          /\ outside => last.raised = RangeError
          /\ illegal => last.raised = IllegalError
          /\ Raised => /\ last.ret = 0
                       /\ heap = <<last.before>>
                       /\ board = last.arg

\* an occupied square is refused after some play
C4_Witness ==
    /\ Raised /\ last.raised = IllegalError
    /\ last.move.val \in last.before.white
    /\ stones(last.before) > 5
    /\ heap[board] = last.before

\* C5: make_move never mutates its input, and the state it returns is a
\* distinct object.
C5_InputUnchanged ==
    Called => /\ heap[last.arg] = last.before
              /\ last.raised = NoError => last.ret \notin {0, last.arg}

C5_Witness ==
    /\ Placed
    /\ Returned.black # last.before.black
    /\ heap[last.arg] = last.before
    /\ last.ret # last.arg

\* C6: a pass returns the same masks with next_player toggled, so two passes
\* in a row return a state equal to the first one in masks and next_player.
C6_Pass ==
    Passed =>
       /\ last.raised = NoError
       /\ Returned.black = last.before.black
       /\ Returned.white = last.before.white
       /\ Returned.next_player \in Player \ {last.before.next_player}
       /\ prior.was_pass =>
             /\ Returned.black = prior.before.black
             /\ Returned.white = prior.before.white
             /\ Returned.next_player = prior.before.next_player

C6_Witness ==
    /\ Passed /\ prior.was_pass
    /\ stones(Returned) > 5
    /\ Returned.next_player = WHITE

\* the states the callers have just passed on: the loop's own call, and the
\* calls of the search it ran
PassSites ==
    (IF Passed THEN Site(last.caller, {last.before}) ELSE {}) \cup search.passed

\* C7: in the console loop, play_game, negamax and MCTS (expand, _simulate,
\* _is_game_over), make_move(None, s) is only applied to states s in which
\* get_legal_moves(s) is empty: no caller passes while the mover has a legal move.
C7_PassOnlyWithoutMoves ==
    \A p \in PassSites : get_legal_moves(p.state) = <<>>

C7_Witness ==
    /\ prog = "mcts"
    /\ \E p \in search.passed : p.place = "expand"
    /\ \E p \in search.passed : p.place = "_simulate"

\* neither colour has a legal move on s
Terminal(s) ==
    \A player \in Player : get_legal_moves([s EXCEPT !.next_player = player]) = <<>>

\* the passes in a row that the loop has made since the last placed piece
PassesInARow == IF Passed THEN (IF prior.was_pass THEN 2 ELSE 1) ELSE 0

\* the loop has stopped, and not for max_moves
StoppedOnPasses == pc = "done" /\ (prog = "train" => moves < MAX_MOVES)

\* C8: the loop stops on the pass counter only after two passes in a row, the
\* counter being reset to 0 by every placed piece; when it stops this way the
\* current state is terminal (neither BLACK nor WHITE has a legal move), so it
\* never stops this way while a colour still has a legal move.
C8_StopsOnTwoPasses ==
    /\ pc \in {"loop", "done"} => consecutive_passes = PassesInARow
    /\ StoppedOnPasses =>
          /\ consecutive_passes = 2
          /\ Passed /\ prior.was_pass
          /\ Terminal(heap[board])

C8_Witness ==
    /\ StoppedOnPasses
    /\ prog = "console"
    /\ stones(heap[board]) < 64
    /\ Terminal(heap[board])

\* C9: every game from the canonical position driven by the loop (pass when
\* the mover has no legal move, otherwise a legal move) eventually reaches two
\* consecutive passes, after at most 60 placed pieces; play_game's count of
\* moves is the number of placed pieces, so max_moves = 120 is never the
\* reason the loop ends.
C9_GameEnds ==
    /\ <>(pc = "done" /\ consecutive_passes = 2)
    /\ [](stones(heap[board]) - 4 <= 60)
    /\ [](prog = "train" =>
             /\ moves = stones(heap[board]) - 4
             /\ moves < MAX_MOVES
             /\ pc = "done" => consecutive_passes = 2)

C9_Witness ==
    /\ prog = "train" /\ pc = "done"
    /\ consecutive_passes = 2
    /\ moves = 60

\* C10 as claimed: a legal move increases the total piece count by 1 plus the
\* number of flipped squares.
C10_TotalGrowsByFlips ==
    Placed => stones(Returned) = stones(last.before) + 1 + Cardinality(Flipped)

\* C10 as amended: a legal move never decreases the total piece count and
\* increases it by exactly 1, the placed piece; the flipped squares change
\* colour, so the mover's count grows by 1 plus their number.
C10_TotalGrowsByOne ==
    Placed =>
       /\ stones(Returned) >= stones(last.before)
       /\ stones(Returned) = stones(last.before) + 1
       /\ Cardinality(OpponentOf(Returned)) =
             Cardinality(MoverOf(last.before)) + 1 + Cardinality(Flipped)

C10_Witness ==
    /\ Placed
    /\ Cardinality(Flipped) = 2
    /\ stones(Returned) = stones(last.before) + 1

\* ---------------------------------------------------------------------------
\* C11: on the canonical starting masks get_legal_moves returns exactly
\* the squares 19, 26, 37, 44 when BLACK is to move and exactly the squares
\* 20, 29, 34, 43 when WHITE is to move.
Canonical(s) == s.black = DEFAULT_BLACK /\ s.white = DEFAULT_WHITE

C11_CanonicalLegalMoves ==
    \A i \in 1..Len(heap) :
        Canonical(heap[i]) =>
            /\ heap[i].next_player = BLACK =>
                   get_legal_moves(heap[i]) = <<19, 26, 37, 44>>
            /\ heap[i].next_player = WHITE =>
                   get_legal_moves(heap[i]) = <<20, 29, 34, 43>>

\* both canonical positions have been built: the start and the start after a pass
C11_Witness ==
    /\ Canonical(heap[board]) /\ heap[board].next_player = WHITE
    /\ \E i \in 1..Len(heap) : Canonical(heap[i]) /\ heap[i].next_player = BLACK
    /\ Passed

\* ---------------------------------------------------------------------------
\* The depth-limited negamax value without any pruning: the value of a leaf
\* or of a finished game, else the best of the negated values of the moves
\* (of the position after the pass, at the same depth, when the mover has no
\* move).
RECURSIVE minimax(_, _, _)
RECURSIVE minimax_best(_, _, _, _, _)
minimax(board_state, depth, weights) ==
    IF depth = 0 THEN evaluate(board_state, weights)
    ELSE With(get_legal_moves(board_state), LAMBDA legal_moves :
         IF legal_moves = <<>>
         THEN With(moved(None, board_state), LAMBDA new_board :
              IF get_legal_moves(new_board) = <<>>
              THEN evaluate_final(board_state)
              ELSE -minimax(new_board, depth, weights))
         ELSE minimax_best(board_state, legal_moves, 1, depth, weights))

\* the best negated value of the moves from index i on
minimax_best(board_state, legal_moves, i, depth, weights) ==
    With(-minimax(moved(Sq(legal_moves[i]), board_state), depth - 1, weights),
         LAMBDA v :
         IF i = Len(legal_moves) THEN v
         ELSE max(v, minimax_best(board_state, legal_moves, i + 1, depth, weights)))

\* the legal moves of the root whose exact value is the maximum
ExactBest(board_state, depth, weights) ==
    With(get_legal_moves(board_state), LAMBDA legal_moves :
    With([m \in Elems(legal_moves) |->
             -minimax(moved(Sq(m), board_state), depth - 1, weights)], LAMBDA exact :
         {m \in DOMAIN exact : \A n \in DOMAIN exact : exact[n] <= exact[m]}))

ChoseAt(depths) ==
    /\ prog = "search" /\ call.fn = "choose_move" /\ call.depth \in depths
    /\ get_legal_moves(heap[board]) # <<>>

\* C12: alpha-beta pruning is correctness-preserving at the root: for every
\* state with a legal move and every depth >= 1, the tie list best_moves of
\* choose_move is exactly the set of legal moves whose exact, unpruned
\* depth-limited negamax value is the maximum; no move with a strictly lower
\* exact value can be returned.
C12_TieListIsExactArgmax ==
    ChoseAt(1..MaxDepth) =>
        Elems(call.best_moves) = ExactBest(heap[board], call.depth, DEFAULT_WEIGHTS)

\* ---------------------------------------------------------------------------
\* C13: with depth = 1 the tie list of choose_move holds exactly the legal
\* moves m whose immediate evaluation -evaluate(make_move(m, state), weights)
\* is maximal among all legal moves: only such moves are returned and each
\* of them can be.
Immediate(board_state, m) == -evaluate(moved(Sq(m), board_state), DEFAULT_WEIGHTS)

C13_DepthOneIsBestEvaluation ==
    ChoseAt({1}) =>
        LET legal == Elems(get_legal_moves(heap[board]))
        IN  Elems(call.best_moves) =
               {m \in legal : \A n \in legal :
                    Immediate(heap[board], n) <= Immediate(heap[board], m)}

\* a one-ply search that kept several tied moves and dropped a worse one
C13_Witness ==
    /\ ChoseAt({1})
    /\ Len(call.best_moves) >= 2
    /\ \E n \in Elems(get_legal_moves(heap[board])) :
          /\ n \notin Elems(call.best_moves)
          /\ Immediate(heap[board], n) < Immediate(heap[board], call.best_moves[1])

\* ---------------------------------------------------------------------------
\* C14: for every state and every depth >= 1, choose_move returns None if
\* and only if the root has no legal move; otherwise it returns a member of
\* get_legal_moves(state); it never raises.
C14_NoneIffNoMove ==
    (prog = "search" /\ call.fn = "choose_move" /\ call.depth >= 1) =>
        LET legal_moves == get_legal_moves(heap[board])
        IN  /\ ~call.raised
            /\ call.answers # {}
            /\ None \in call.answers <=> legal_moves = <<>>
            /\ legal_moves # <<>> =>
                  call.answers \subseteq {Sq(m) : m \in Elems(legal_moves)}

\* choose_move answered None: the mover of the root had to pass
C14_Witness ==
    /\ prog = "search" /\ call.fn = "choose_move" /\ call.depth >= 1
    /\ call.answers = {None}
    /\ get_legal_moves(moved(None, heap[board])) # <<>>

\* ---------------------------------------------------------------------------
\* The activations of the latest search call: the one called from outside
\* and those it called, and what each of them returned.
TopFrame == Frame(call.fn, heap[board], call.depth, call.alpha, call.beta)
Activations == {TopFrame} \cup {e.to : e \in call.calls}
ReturnedBy(frame) ==
    IF frame = TopFrame THEN {call.value}
    ELSE {e.value : e \in {f \in call.calls : f.to = frame}}
CallsOf(frame) == {e \in call.calls : e.from = frame}

\* the mover of s has no legal move but the opponent has one
MustPass(s) ==
    /\ get_legal_moves(s) = <<>>
    /\ get_legal_moves(moved(None, s)) # <<>>

\* C15: in negamax with remaining depth >= 1, when the mover has no legal
\* move but the opponent has one, the result is -negamax(passed state, same
\* depth, -beta, -alpha): the pass does not consume a ply of the depth budget.
C15_PassKeepsDepth ==
    (prog = "search" /\ call.fn # "none") =>
        \A frame \in Activations :
            (frame.fn = "negamax" /\ frame.depth >= 1 /\ MustPass(frame.state)) =>
                /\ \E e \in CallsOf(frame) : CallsOf(frame) = {e}
                /\ \A e \in CallsOf(frame) :
                      /\ e.pass
                      /\ e.to = Frame("negamax", moved(None, frame.state), frame.depth,
                                      -frame.beta, -frame.alpha)
                      /\ ReturnedBy(frame) = {-e.value}
                      /\ e.value = negamax(moved(None, frame.state), frame.depth,
                                           -frame.beta, -frame.alpha,
                                           DEFAULT_WEIGHTS).value

\* negamax was called with a narrow window on a state whose mover must pass,
\* and the opponent's reply was searched with a ply left
C15_Witness ==
    /\ prog = "search" /\ call.fn = "negamax" /\ call.depth >= 1 /\ call.alpha = 0
    /\ MustPass(heap[board])
    /\ \E e \in CallsOf(TopFrame) : e.pass /\ CallsOf(e.to) # {}

\* ---------------------------------------------------------------------------
\* C16: on every state in which neither the mover nor the opponent has a
\* legal move, negamax returns the terminal evaluation (+1000, -1000 or 0 by
\* piece count from the mover's side) for every remaining depth >= 0, and
\* explores no further state.
C16_TerminalValueAtAnyDepth ==
    (prog = "search" /\ call.fn # "none") =>
        \A frame \in Activations :
            (frame.fn = "negamax" /\ frame.depth >= 0 /\ Terminal(frame.state)) =>
                /\ ReturnedBy(frame) = {evaluate_final(frame.state)}
                /\ CallsOf(frame) = {}

\* ---------------------------------------------------------------------------
\* C17 as claimed: during choose_move(state, depth) with depth >= 1 the
\* number of nested active search calls (choose_move plus the negamax frames
\* below it) never exceeds depth, on lines with forced passes too.
C17_FramesWithinDepth ==
    (prog = "search" /\ call.fn = "choose_move" /\ call.depth >= 1) =>
        call.frames <= call.depth

\* C17: during choose_move(state, depth) with depth >= 1 the number of
\* nested active search calls never exceeds depth + 1 when the search makes
\* no forced pass, and never exceeds 2 * depth with forced passes, each of
\* which adds a frame without using up depth.
C17_FramesWithinTwiceDepth ==
    (prog = "search" /\ call.fn = "choose_move" /\ call.depth >= 1) =>
        /\ call.frames <= 2 * call.depth
        /\ (\A e \in call.calls : ~e.pass) => call.frames <= call.depth + 1

\* a search two plies deep or more that nested more than depth + 1 calls
C17_Witness ==
    /\ prog = "search" /\ call.fn = "choose_move" /\ call.depth >= 2
    /\ call.frames > call.depth + 1
    /\ \E e \in call.calls : e.pass

\* ---------------------------------------------------------------------------
\* What is left of the game in state s: twice the empty squares, plus one
\* when the mover has to pass.
Measure(s) == 2 * (64 - stones(s)) + (IF get_legal_moves(s) = <<>> THEN 1 ELSE 0)

\* every recursive call of the negamax search is on a state with less of the
\* game left, whatever the depth is
Descends ==
    (prog = "search" /\ call.fn # "none") =>
        \A e \in call.calls :
            /\ Measure(e.to.state) < Measure(e.from.state)
            /\ Measure(e.to.state) >= 0

\* the MCTS loop has run no more turns than its budget
WithinBudget ==
    prog = "mcts" => iterations <= search.budget /\ (tree # <<>> => tree[1].visits = iterations)

\* C18 as claimed: both searches terminate on every state: negamax
\* choose_move for every integer depth, also depth <= 0, and MCTS choose_move
\* performs exactly `explorations` iterations, each of which ends.
C18_ExactlyBudgetOnEveryState ==
    /\ [](Descends /\ WithinBudget)
    /\ (prog = "mcts" /\ pc = "iterate") ~> (pc = "done")
    /\ []((prog = "mcts" /\ pc = "done") => iterations = search.budget)

\* C18: both searches terminate on every state: every recursive call of the
\* negamax search, for every integer depth, also depth <= 0, is on a state
\* with less of the game left, and MCTS choose_move performs exactly
\* `explorations` iterations, each of which ends, when the root has a legal
\* move, and none when it has not (it returns None at once).
C18_SearchesTerminate ==
    /\ [](Descends /\ WithinBudget)
    /\ (prog = "mcts" /\ pc = "iterate") ~> (pc = "done")
    /\ []((prog = "mcts" /\ pc = "done") =>
             iterations = (IF get_legal_moves(heap[board]) = <<>> THEN 0
                           ELSE search.budget))

\* MCTS has run its whole budget of two turns or more and answered
C18_Witness ==
    /\ prog = "mcts" /\ pc = "done"
    /\ iterations = search.budget /\ iterations >= 2
    /\ tree[1].visits = iterations
    /\ search.answers # {}

\* ---------------------------------------------------------------------------
\* The five features of a board, from the side of the mover, by the geometry
\* of the board.
RuleCorners == {p \in 0..63 : p \div 8 \in {0, 7} /\ p % 8 \in {0, 7}}
RulePerimeter == {p \in 0..63 : p \div 8 \in {0, 7} \/ p % 8 \in {0, 7}} \ RuleCorners
RuleNeighbours(c) ==
    {p \in (0..63) \ {c} : /\ (p \div 8) - (c \div 8) \in {-1, 0, 1}
                           /\ (p % 8) - (c % 8) \in {-1, 0, 1}}
\* pieces of the mover minus pieces of the opponent on the squares S
Difference(S, s) == Cardinality(S \cap MoverOf(s)) - Cardinality(S \cap OpponentOf(s))
RuleMobility(s) ==
    Cardinality(RuleLegal(s))
    - Cardinality(RuleLegal([s EXCEPT !.next_player = _toggle_player(s.next_player)]))
\* the neighbours of the corners that are empty
RuleDanger(s) ==
    UNION {RuleNeighbours(c) : c \in RuleCorners \ (s.black \cup s.white)}

\* 64 times the weighted sum of the five features
RuleScore(s, weights) ==
    64 * (weights.mobility * RuleMobility(s)
          + weights.corners * Difference(RuleCorners, s)
          - weights.corner_adjacent * Difference(RuleDanger(s), s)
          + weights.edges * Difference(RulePerimeter, s))
    + stones(s) * weights.piece_count * Difference(0..63, s)

\* C19: for every board and weight vector, evaluate returns the weighted sum
\* of the five features taken from the mover's side: mobility (legal moves of
\* the mover minus those of the opponent on the same pieces), corners
\* (squares 0, 7, 56, 63), corner adjacency (for each empty corner only, each
\* of its 3 neighbours held by the mover subtracts the weight and each held
\* by the opponent adds it), edges (the 24 non-corner perimeter squares) and
\* the piece difference scaled by (total pieces)/64.
C19_EvaluateIsWeightedSum ==
    (prog = "search" /\ call.fn = "evaluate") =>
        /\ call.value = RuleScore(heap[board], call.weights)
        /\ Cardinality(RulePerimeter) = 24
        /\ \A c \in RuleCorners : Cardinality(RuleNeighbours(c)) = 3

\* evaluate has scored a board on which every feature counts: the mobilities
\* differ, a corner is held, an empty corner has a held neighbour, the edge
\* counts differ and so do the piece counts
C19_Witness ==
    /\ prog = "search" /\ call.fn = "evaluate" /\ call.weights # DEFAULT_WEIGHTS
    /\ RuleMobility(heap[board]) # 0
    /\ Difference(RuleCorners, heap[board]) # 0
    /\ Difference(RuleDanger(heap[board]), heap[board]) # 0
    /\ Difference(RulePerimeter, heap[board]) # 0
    /\ Difference(0..63, heap[board]) # 0

\* ---------------------------------------------------------------------------
\* C20: evaluate_final returns +1000 when the player to move has strictly
\* more pieces than the opponent, -1000 when strictly fewer and 0 on an exact
\* tie; a full board with 32 pieces each scores 0 and is terminal (no legal
\* move for either colour).
C20_EvaluateFinal ==
    (prog = "search" /\ call.fn = "evaluate_final") =>
        LET s == heap[board]
            lead == Difference(0..63, s)
        IN  /\ lead > 0 => call.value = 64 * 1000
            /\ lead < 0 => call.value = 64 * (-1000)
            /\ lead = 0 => call.value = 0
            /\ (Cardinality(s.black) = 32 /\ Cardinality(s.white) = 32) =>
                  call.value = 0 /\ Terminal(s)

\* evaluate_final has scored a full board with 32 pieces each, WHITE to move
C20_Witness ==
    /\ prog = "search" /\ call.fn = "evaluate_final"
    /\ Cardinality(heap[board].black) = 32 /\ Cardinality(heap[board].white) = 32
    /\ heap[board].next_player = WHITE
    /\ call.value = 0

(***************************************************************************)
(* C21: get_legal_moves and evaluate are total.  On every pair of masks    *)
(* and for either player to move, the empty board, full boards and boards  *)
(* where one colour has no piece included, get_legal_moves returns squares *)
(* of 0..63, each once, and none at all when the mover has no piece or    *)
(* the board is empty; evaluate returns a score strictly inside the        *)
(* infinities of the search.                                               *)
(***************************************************************************)
C21_TotalOnAnyMasks ==
    /\ call.fn = "get_legal_moves" =>
          /\ Elems(call.best_moves) \subseteq 0..63
          /\ Cardinality(Elems(call.best_moves)) = Len(call.best_moves)
          /\ (MoverOf(heap[board]) = {} \/ heap[board].black \cup heap[board].white = {})
                => call.best_moves = <<>>
    /\ call.fn = "evaluate" => call.value \in Int /\ -Inf < call.value /\ call.value < Inf

C21_Witness ==
    /\ call.fn = "get_legal_moves"
    /\ MoverOf(heap[board]) = {} /\ OpponentOf(heap[board]) # {}
    /\ OpponentOf(heap[board]) # FullMask
    /\ call.best_moves = <<>>

(***************************************************************************)
(* C22: choose_move of strategy_mcts, called with an exploration budget of *)
(* 0 on a root that has a legal move, has created and simulated at least   *)
(* one child of the root when it answers.                                  *)
(***************************************************************************)
C22_ZeroBudgetStillExpands ==
    (/\ prog = "mcts" /\ pc = "done" /\ search.budget = 0
     /\ ~no_moves(get_legal_moves(heap[board])))
    => /\ tree # <<>>
       /\ \E c \in Elems(tree[1].children) : tree[c].visits >= 1

(***************************************************************************)
(* C23: for every exploration budget of at least 1, choose_move of         *)
(* strategy_mcts answers None exactly when the root has no legal move and  *)
(* a legal move of the root otherwise, and no turn of its loop raises:     *)
(* expand is never called on a node without an untried move and            *)
(* best_child never comes back without a child.                            *)
(***************************************************************************)
C23_MctsNoneIffNoMove ==
    (prog = "mcts" /\ search.budget >= 1) =>
       /\ pc # "raised" /\ ~search.turn.raised
       /\ pc = "done" =>
             /\ Cardinality(search.answers) = 1
             /\ search.answers = {None} <=> no_moves(get_legal_moves(heap[board]))
             /\ \A a \in search.answers \ {None} :
                   a.tag = "int" /\ a.val \in Elems(get_legal_moves(heap[board]))
       /\ \A n \in 1..Len(tree) :
             /\ tree[n].untried_moves # <<>> \/ tree[n].children # <<>>
             /\ tree[n].children # <<>> => tree[n].visits >= 1
             /\ \A c \in Elems(tree[n].children) : tree[c].visits >= 1

\* an answer after a turn in which best_child was called
C23_Witness ==
    /\ prog = "mcts" /\ pc = "done" /\ search.budget >= 1
    /\ search.turn.path # <<>>
    /\ search.answers # {None}

(***************************************************************************)
(* C24: when the budget is exhausted, choose_move of strategy_mcts answers *)
(* the move of the root child with the highest visit count, whatever the   *)
(* average values are; among the children tied for the highest count it    *)
(* answers the one created first.                                          *)
(***************************************************************************)
RootChildren == Elems(tree[1].children)
MostVisited == {c \in RootChildren : \A d \in RootChildren : tree[d].visits <= tree[c].visits}
\* nodes are numbered in the order of their creation
FirstCreated(S) == CHOOSE c \in S : \A d \in S : c <= d

C24_AnswerIsMostVisited ==
    (prog = "mcts" /\ pc = "done" /\ tree # <<>> /\ RootChildren # {}) =>
       search.answers = {tree[FirstCreated(MostVisited)].move}

\* the answer has two visits and the average 0, the other child one visit and
\* the average 1 (the two were level at 1 before the third turn)
C24_Witness ==
    /\ prog = "mcts" /\ pc = "done" /\ tree # <<>> /\ Len(tree[1].children) = 2
    /\ LET first == tree[1].children[1]
           second == tree[1].children[2]
       IN  /\ tree[first].visits = 2 /\ tree[first].value = 0
           /\ tree[second].visits = 1 /\ tree[second].value = 1
           /\ search.answers = {tree[first].move}

(***************************************************************************)
(* C25: in each turn of the MCTS loop, backpropagation adds 1 to visits    *)
(* and the result of the turn's simulation to value at exactly the nodes   *)
(* on the parent chain from the simulated node up to and including the     *)
(* root; visits and value of every other node are as before the turn (0    *)
(* and 0 for the node the turn created).                                   *)
(***************************************************************************)
RECURSIVE Ancestors(_, _)
Ancestors(nodes, n) == IF n = 0 THEN {} ELSE {n} \cup Ancestors(nodes, nodes[n].parent)

C25_BackpropagationFrame ==
    [][(prog = "mcts" /\ iterations' = iterations + 1) =>
         LET chain == Ancestors(tree', search'.turn.node)
             result == search'.turn.result
             visits(i) == IF i <= Len(tree) THEN tree[i].visits ELSE 0
             value(i) == IF i <= Len(tree) THEN tree[i].value ELSE 0
         IN  /\ result \in {-1, 0, 1}
             /\ search'.turn.node \in chain /\ 1 \in chain
             /\ \A i \in 1..Len(tree') :
                   IF i \in chain
                   THEN /\ tree'[i].visits = visits(i) + 1
                        /\ tree'[i].value = value(i) + result
                   ELSE /\ tree'[i].visits = visits(i)
                        /\ tree'[i].value = value(i)]_vars

\* a turn that simulated from a grandchild of the root, with a result other
\* than 0, beside a child of the root that is not on the chain
C25_Witness ==
    /\ prog = "mcts" /\ search.turn.node # 0 /\ search.turn.result # 0
    /\ Cardinality(Ancestors(tree, search.turn.node)) = 3
    /\ \E i \in 1..Len(tree) :
          i \notin Ancestors(tree, search.turn.node) /\ tree[i].visits >= 1

(***************************************************************************)
(* C26: a playout of _simulate places pieces on legal squares and passes   *)
(* only where the mover has no move; it ends, after no more turns of its   *)
(* loop than two for each empty square of its first state and two more,    *)
(* with two passes in a row, on a state where neither colour has a legal   *)
(* move; it returns +1 when the root player has strictly more pieces on    *)
(* that last board, -1 when strictly fewer and 0 on a tie, whichever       *)
(* player is to move there.                                                *)
(***************************************************************************)
SimulatedFrom == tree[search.turn.node].board_state
SimulatePasses == {p.state : p \in {q \in search.passed : q.place = "_simulate"}}
CountOf(s, player) == Cardinality(IF player = BLACK THEN s.black ELSE s.white)

C26_PlayoutEndsAndScores ==
    (prog = "mcts" /\ search.turn.node # 0) =>
       LET final == search.turn.final
           root_player == tree[1].board_state.next_player
           mine == CountOf(final, root_player)
           theirs == CountOf(final, IF root_player = BLACK THEN WHITE ELSE BLACK)
           placed == stones(final) - stones(SimulatedFrom)
       IN  /\ \A s \in SimulatePasses : get_legal_moves(s) = <<>>
           /\ SimulatedFrom.black \subseteq final.black \cup final.white
           /\ SimulatedFrom.white \subseteq final.black \cup final.white
           /\ placed >= 0
           /\ search.turn.steps >= placed + 2
           /\ search.turn.steps <= 2 * (64 - stones(SimulatedFrom)) + 2
           /\ final \in SimulatePasses
           /\ [final EXCEPT !.next_player = IF @ = BLACK THEN WHITE ELSE BLACK]
                 \in SimulatePasses
           /\ Terminal(final)
           /\ search.turn.result = IF mine > theirs THEN 1
                                   ELSE IF mine < theirs THEN -1 ELSE 0

\* a playout that placed pieces, passed once before its last two passes,
\* ended with empty squares left and with the opponent of the root player to
\* move, and was won by the root player
C26_Witness ==
    /\ prog = "mcts" /\ search.turn.node # 0
    /\ stones(search.turn.final) > stones(SimulatedFrom)
    /\ stones(search.turn.final) < 64
    /\ search.turn.steps > stones(search.turn.final) - stones(SimulatedFrom) + 2
    /\ search.turn.final.next_player # tree[1].board_state.next_player
    /\ search.turn.result = 1

(***************************************************************************)
(* C27: each turn of the MCTS loop adds exactly one node to the tree, a    *)
(* child of the selected node, when the selected node is not game-over,    *)
(* and none when it is, so game-over nodes never get children.  After      *)
(* every turn, for every node: the moves of its children are pairwise      *)
(* distinct and none of them is an untried move; together with the untried *)
(* moves they are the node's legal moves, or the single pass when it has   *)
(* none; each child's state is make_move(child.move, state of the node).   *)
(***************************************************************************)
MovesOf(nodes, n) ==
    [i \in 1..Len(nodes[n].children) |-> nodes[nodes[n].children[i]].move]
        \o nodes[n].untried_moves

TreeShape(nodes) ==
    \A n \in 1..Len(nodes) :
       LET state == nodes[n].board_state
           legal_moves == get_legal_moves(state)
       IN  /\ Cardinality(Elems(MovesOf(nodes, n))) = Len(MovesOf(nodes, n))
           /\ Elems(MovesOf(nodes, n)) =
                 IF legal_moves = <<>> THEN {None}
                 ELSE {Sq(m) : m \in Elems(legal_moves)}
           /\ \A c \in Elems(nodes[n].children) :
                 /\ nodes[c].parent = n
                 /\ nodes[c].board_state = moved(nodes[c].move, state)
           /\ Terminal(state) => nodes[n].children = <<>>

C27_OneNodePerTurn ==
    [][(prog = "mcts" /\ iterations' = iterations + 1) =>
         LET selected == search'.turn.selected
             node == search'.turn.node
         IN  /\ selected \in 1..Len(tree)
             /\ IF Terminal(tree[selected].board_state)
                THEN tree'[selected].children = <<>> /\ Len(tree') = Len(tree)
                     /\ node = selected
                ELSE Len(tree') = Len(tree) + 1 /\ node = Len(tree')
                     /\ tree'[node].parent = selected
             /\ TreeShape(tree')]_vars

\* a turn that ended on a game-over node below the root and added nothing:
\* the node has its pass untried and a second visit
C27_Witness ==
    /\ prog = "mcts" /\ search.turn.node # 0 /\ search.turn.over
    /\ search.turn.node = search.turn.selected /\ search.turn.path # <<>>
    /\ tree[search.turn.node].untried_moves = <<None>>
    /\ tree[search.turn.node].visits >= 2

(***************************************************************************)
(* C28: selection goes down from the root along parent links and takes a   *)
(* child by best_child only at nodes that have no untried move left and a  *)
(* child for every one of their legal moves (or for their pass); so once   *)
(* the loop has made as many turns as the root has legal moves, every      *)
(* legal move of the root has a child with at least one visit.             *)
(***************************************************************************)
LegalOrPass(s) ==
    IF get_legal_moves(s) = <<>> THEN {None}
    ELSE {Sq(m) : m \in Elems(get_legal_moves(s))}

C28_SelectionBelowFullyExpanded ==
    [][(prog = "mcts" /\ iterations' = iterations + 1) =>
         LET path == search'.turn.path
             selected == search'.turn.selected
         IN  /\ \A i \in 1..Len(path) :
                   /\ path[i] \in 1..Len(tree)
                   /\ tree[path[i]].untried_moves = <<>>
                   /\ {tree[c].move : c \in Elems(tree[path[i]].children)}
                         = LegalOrPass(tree[path[i]].board_state)
                   /\ (IF i = 1 THEN 0 ELSE path[i - 1]) = tree[path[i]].parent
             /\ tree[selected].parent = (IF path = <<>> THEN 0 ELSE path[Len(path)])
             /\ iterations' >= Len(get_legal_moves(tree'[1].board_state)) =>
                   \A move \in LegalOrPass(tree'[1].board_state) :
                      \E c \in Elems(tree'[1].children) :
                         tree'[c].move = move /\ tree'[c].visits >= 1]_vars

\* the third turn on a root with two legal moves: best_child was called on
\* the root, and both moves have a child with a visit
C28_Witness ==
    /\ prog = "mcts" /\ iterations = 3 /\ search.turn.path # <<>>
    /\ Len(get_legal_moves(tree[1].board_state)) = 2
    /\ \A c \in Elems(tree[1].children) : tree[c].visits >= 1

(***************************************************************************)
(* C29: user and session_id never influence the rules or the evaluation.   *)
(* For any state and any state with the same masks and next_player but     *)
(* another user and session_id, get_legal_moves returns the same squares,  *)
(* make_move returns the same masks and next_player, or raises the same    *)
(* error, for every move, and evaluate and evaluate_final return the same  *)
(* score.                                                                  *)
(***************************************************************************)
OtherMetadata == {<<"other", "session-2">>, <<"", "">>}
Twins(s) == {[s EXCEPT !.user = m[1], !.session_id = m[2]] : m \in OtherMetadata}
\* the moves tried on s: a pass, the rejected inputs and every legal square
MovesTried(s) == {None} \cup OtherInputs \cup {Sq(m) : m \in Elems(get_legal_moves(s))}

\* what make_move(move, s) raises, or the masks and next_player it returns
Outcome(move, s) ==
    With(make_move(move, 1, <<s>>), LAMBDA r :
    IF r.raised # NoError THEN <<r.raised>>
    ELSE <<r.raised, r.heap[r.ret].black, r.heap[r.ret].white,
           r.heap[r.ret].next_player>>)

SameRules(s, twin) ==
    /\ get_legal_moves(twin) = get_legal_moves(s)
    /\ \A move \in MovesTried(s) : Outcome(move, twin) = Outcome(move, s)
    /\ \A weights \in SampledWeights : evaluate(twin, weights) = evaluate(s, weights)
    /\ evaluate_final(twin) = evaluate_final(s)

\* positions of up to TwinStones pieces are compared with their twins in full
TwinStones == 5

C29_MetadataDoesNotInfluence ==
    /\ stones(heap[board]) <= TwinStones =>
          \A twin \in Twins(heap[board]) : SameRules(heap[board], twin)
    /\ Called =>
          \A twin \in Twins(last.before) :
             Outcome(last.move, twin) =
                IF last.raised # NoError THEN <<last.raised>>
                ELSE <<last.raised, Returned.black, Returned.white, Returned.next_player>>

\* a move that captured, on a state that has legal moves and a twin without
\* user and session_id
C29_Witness ==
    /\ Placed /\ Flipped # {} /\ stones(heap[board]) <= TwinStones
    /\ get_legal_moves(heap[board]) # <<>>
    /\ \E twin \in Twins(heap[board]) :
          twin.user = "" /\ twin.session_id = "" /\ twin.user # heap[board].user

(***************************************************************************)
(* C30: every successful make_move, for a square and for a pass, returns a *)
(* state whose user and session_id are those of the input state, so both   *)
(* are the same in every state of one game.                                *)
(***************************************************************************)
C30_MetadataKept ==
    /\ (Called /\ last.raised = NoError) =>
          /\ Returned.user = last.before.user
          /\ Returned.session_id = last.before.session_id
    /\ \A ref \in DOMAIN heap :
          /\ heap[ref].user = heap[board].user /\ heap[ref].user \in Users
          /\ heap[ref].session_id = heap[board].session_id
          /\ heap[ref].session_id \in SessionIds

\* a pass after a placed piece
C30_Witness ==
    /\ Passed /\ last.raised = NoError /\ stones(Returned) > 4
    /\ Returned.user = "testuser" /\ Returned.session_id = "session-1"

\* the fail-soft relation between r, the value an activation returned, and v,
\* the exact unpruned depth-limited value of its position
FailSoft(frame, r) ==
    With(minimax(frame.state, frame.depth, DEFAULT_WEIGHTS), LAMBDA v :
         /\ (frame.alpha < r /\ r < frame.beta) => r = v
         /\ r >= frame.beta => r <= v
         /\ r <= frame.alpha => r >= v
         /\ (frame.alpha = -Inf /\ frame.beta = Inf) => r = v)

\* C31: negamax(state, depth, alpha, beta) with depth >= 0 and alpha < beta is
\* fail-soft.  For the call made from outside and every negamax activation
\* made below it, and for every negamax activation made below a choose_move
\* call of depth at most 2, with v the exact unpruned depth-limited value and
\* r the value returned: r = v when alpha < r < beta, r <= v when r >= beta,
\* r >= v when r <= alpha; with the full window the result is v.
C31_FailSoftBounds ==
    (prog = "search" /\ (call.fn = "negamax" \/ (call.fn = "choose_move" /\ call.depth <= 2))) =>
        /\ (TopFrame.fn = "negamax" /\ TopFrame.depth >= 0 /\ TopFrame.alpha < TopFrame.beta) =>
               FailSoft(TopFrame, call.value)
        /\ \A e \in call.calls :
               (e.to.fn = "negamax" /\ e.to.depth >= 0 /\ e.to.alpha < e.to.beta) =>
                   FailSoft(e.to, e.value)

\* a call cut off with a value below the exact one, and a call that failed
\* low with a value above the exact one
C31_Witness ==
    /\ prog = "search" /\ call.fn = "negamax" /\ call.depth >= 2
    /\ \E frame \in Activations : \E r \in ReturnedBy(frame) :
          /\ frame.depth >= 1 /\ frame.alpha < frame.beta /\ r >= frame.beta
          /\ r < minimax(frame.state, frame.depth, DEFAULT_WEIGHTS)
    /\ \E frame \in Activations : \E r \in ReturnedBy(frame) :
          /\ frame.depth >= 1 /\ frame.alpha < frame.beta /\ r <= frame.alpha
          /\ r > minimax(frame.state, frame.depth, DEFAULT_WEIGHTS)

\* the squares that hold a piece
Occupied(s) == s.black \cup s.white

\* C32: a legal move changes the set of occupied squares only by adding the
\* placed square, which was empty; the total piece count grows by exactly 1,
\* the mover's count grows by 1 plus the number of flips, which is at least 1,
\* and the opponent's count falls by the number of flips.
C32_OccupiedGrowsByPlaced ==
    Placed =>
       \E s \in {last.before}, m \in {last.move.val}, n \in {Cardinality(Flipped)} :
          /\ m \notin Occupied(s)
          /\ Occupied(Returned) = Occupied(s) \cup {m}
          /\ Occupied(s) \subseteq Occupied(Returned)
          /\ CountOf(Returned, BLACK) + CountOf(Returned, WHITE)
                = CountOf(s, BLACK) + CountOf(s, WHITE) + 1
          /\ n >= 1
          /\ CountOf(Returned, s.next_player) = CountOf(s, s.next_player) + 1 + n
          /\ CountOf(Returned, _toggle_player(s.next_player))
                = CountOf(s, _toggle_player(s.next_player)) - n

\* a move that flips two pieces and leaves the opponent with one piece
C32_Witness ==
    /\ Placed /\ Cardinality(Flipped) = 2
    /\ CountOf(Returned, _toggle_player(last.before.next_player)) = 1

\* is_legal_move and _get_flips_mask on every empty square of one board
ScannersAgree(player_pieces, opponent_pieces) ==
    \A position \in (0..63) \ (player_pieces \cup opponent_pieces) :
       \E mask \in {_get_flips_mask(position, player_pieces, opponent_pieces)} :
          /\ is_legal_move(position, player_pieces, opponent_pieces) <=> mask # {}
          /\ mask \subseteq opponent_pieces
          /\ position \notin mask

\* C33: the two direction scanners agree.  For every board with disjoint masks
\* and every empty square, with either colour as the mover, is_legal_move is
\* true exactly when _get_flips_mask is not empty, and the flip mask holds only
\* opponent pieces and never the placed square.
\* (Every state of the heap is the newest one when it is constructed.)
C33_ScannersAgree ==
    \E s \in {heap[Len(heap)]} :
       s.black \cap s.white = {} =>
          /\ ScannersAgree(s.black, s.white)
          /\ ScannersAgree(s.white, s.black)

\* black has captured b1 from a1; h1 captures nothing although the square after
\* it in the mask, a2, is white; b2 captures nothing although the white runs
\* north and west of it reach the edge of the board
C33_Witness ==
    \E s \in {last.before} :
       /\ Placed /\ last.move.val = 0 /\ Flipped = {1}
       /\ s.white = {1, 8} /\ s.black = {2}
       /\ _get_flips_mask(0, s.black, s.white) = {1}
       /\ is_legal_move(0, s.black, s.white)
       /\ _get_flips_mask(7, s.black, s.white) = {}
       /\ ~is_legal_move(7, s.black, s.white)
       /\ _get_flips_mask(9, s.black, s.white) = {}
       /\ ~is_legal_move(9, s.black, s.white)

\* the sum of the visit counts of the nodes of a list
RECURSIVE VisitsOf(_, _)
VisitsOf(nodes, children) ==
    IF children = <<>> THEN 0
    ELSE nodes[Head(children)].visits + VisitsOf(nodes, Tail(children))

\* the nodes on which the selection loop would call best_child
Selectable(nodes) ==
    {n \in 1..Len(nodes) : is_fully_expanded(nodes[n]) /\ nodes[n].children # <<>>}

\* C34: after every completed MCTS iteration the root's visit count is the
\* number of completed iterations and the sum of its children's visit counts;
\* a node below the root that is not game-over has 1 + the sum of its
\* children's visit counts; every node below the root has visits >= 1 and
\* |value| <= visits.  So wherever best_child may run, the parent and every
\* child have been visited, the zero-visit branch is not taken and the UCT
\* score is defined.
C34_VisitCounts ==
    (prog = "mcts" /\ tree # <<>>) =>
       /\ tree[1].visits = iterations
       /\ tree[1].visits = VisitsOf(tree, tree[1].children)
       /\ \A n \in 2..Len(tree) :
             /\ tree[n].visits >= 1
             /\ -tree[n].visits <= tree[n].value /\ tree[n].value <= tree[n].visits
             /\ ~_is_game_over(tree[n].board_state).result =>
                   tree[n].visits = 1 + VisitsOf(tree, tree[n].children)
       /\ \A n \in Selectable(tree) :
             /\ tree[n].visits >= 1
             /\ \A c \in Elems(tree[n].children) : tree[c].visits >= 1
             /\ best_child(tree, n) \in Elems(tree[n].children)

\* best_child has run at the root and below it in the latest iteration, and a
\* game-over node of the tree has been visited twice without having a child
C34_Witness ==
    /\ prog = "mcts" /\ tree # <<>> /\ iterations >= 3
    /\ Len(search.turn.path) >= 2
    /\ \E n \in 2..Len(tree) :
          /\ _is_game_over(tree[n].board_state).result
          /\ tree[n].visits >= 2 /\ tree[n].children = <<>>

\* the state with the other player to move and the pieces unchanged
Flipped_player(s) == [s EXCEPT !.next_player = _toggle_player(@)]

\* C35: evaluate is antisymmetric in the player to move: for the board (a
\* position of a game, so its masks are disjoint) and the weights of every
\* call, evaluate of the state with next_player flipped and the pieces
\* unchanged is the negation of the value the call returned; the same holds
\* for evaluate_final.
C35_Antisymmetric ==
    /\ (prog = "search" /\ call.fn = "evaluate") =>
          evaluate(Flipped_player(heap[board]), call.weights) = -call.value
    /\ (prog = "search" /\ call.fn = "evaluate_final") =>
          evaluate_final(Flipped_player(heap[board])) = -call.value

\* a position that evaluate scores below 0 for its mover although the mover
\* has more pieces, so that evaluate_final scores it above 0 for the mover
\* and below 0 for the other player
C35_Witness ==
    /\ prog = "search" /\ call.fn = "evaluate" /\ call.weights # DEFAULT_WEIGHTS
    /\ call.value < 0
    /\ evaluate(Flipped_player(heap[board]), call.weights) > 0
    /\ evaluate_final(heap[board]) > 0
    /\ evaluate_final(Flipped_player(heap[board])) < 0
    /\ Len(get_legal_moves(heap[board])) # Len(get_legal_moves(Flipped_player(heap[board])))

=============================================================================
